---- MODULE Spec2Model ----
(***************************************************************************)
(* Voltcast load forecasting: the horizon endpoint (api/routes/            *)
(* predictions.py), the iterative predictor (api/services/                 *)
(* iterative_predictor.py), the dataset replay predictor (api/services/    *)
(* hybrid_predictor.py) and the forecast cache (api/services/cache.py).    *)
(*                                                                         *)
(* Timestamps are seconds since midnight of day 0.  Loads are integers     *)
(* (MW); a mean is the integer quotient of sum and count.                  *)
(***************************************************************************)
EXTENDS Integers, Sequences, FiniteSets, Bags, TLC

\* ------------------------------------------------------------------ bounds
\* whole days between the last recorded day and the latest request start
MaxGapDays == 2

\* passes of the gap loop followed within one request: one more than a gap
\* that advances on every pass needs for the latest start considered
MaxGapIterations == MaxGapDays + 3

\* ------------------------------------------------------- program constants
SECONDS_PER_HOUR == 3600
HOURS_PER_DAY == 24
SEQ_LEN == 168
REPLAY_HOURS == 24
LATEST_VALID_BACK == 23
CI_MARGIN == 175
\* 1.96 * residual_stats std (3.88 unless the metadata says otherwise)
LEGACY_CI_MARGIN == 8
LEGACY_TTL == 600
WEEK_HOURS == 168
WEEK_DAYS == 7
STATIC_BASE == 3000
STATIC_STEP == 50

\* Python None for a model artifact that is not loaded
None == [present |-> FALSE, bias |-> 0]

HOUR == SECONDS_PER_HOUR
DAY == HOURS_PER_DAY * HOUR

Max(a, b) == IF a >= b THEN a ELSE b
Min(a, b) == IF a <= b THEN a ELSE b

\* datetime.hour, datetime.date(), datetime.combine(date, time.min)
HourOf(ts) == (ts \div HOUR) % HOURS_PER_DAY
DateOf(ts) == ts \div DAY
DayStart(ts) == DateOf(ts) * DAY

\* datetime.isoformat() and pd.to_datetime back: the text names the date,
\* the hour and the seconds into the hour
IsoFormat(ts) == [date |-> DateOf(ts), hour |-> HourOf(ts), second |-> ts % HOUR]
ToDatetime(text) == text.date * DAY + text.hour * HOUR + text.second

\* int((a - b).total_seconds() / 3600): int() truncates towards zero
HoursBetween(a, b) ==
    IF a >= b THEN (a - b) \div HOUR ELSE 0 - ((b - a) \div HOUR)

\* DataFrame.tail(n) / ndarray[-n:]
TailN(s, n) ==
    IF Len(s) <= n THEN s ELSE SubSeq(s, Len(s) - n + 1, Len(s))

\* list[a:b] with 0 <= a, Python slice clamping at the end of the list
Slice(s, a, b) ==
    IF a >= Min(b, Len(s)) THEN << >> ELSE SubSeq(s, a + 1, Min(b, Len(s)))

\* -------------------------------------------------------------- the dataset
\* The CSV read by pd.read_csv: one row per recorded hour, hourly from
\* df.first to df.last (index sorted by sort_index()).  The load column is
\* a function of the timestamp.
CsvLoad(ts) == 900 + 10 * HourOf(ts) + 5 * (DateOf(ts) % 3)

DfHas(df, ts) ==
    /\ ts >= df.first
    /\ ts <= df.last
    /\ (ts - df.first) % HOUR = 0

\* position of ts in the sorted frame (0-based), for a recorded ts
DfIdx(df, ts) == (ts - df.first) \div HOUR

DfLen(df) == ((df.last - df.first) \div HOUR) + 1

\* df_check.tail(168).reset_index()[['timestamp', 'load']]
DfTail(df, n) ==
    LET m == Min(n, DfLen(df))
    IN  [i \in 1..m |-> [timestamp |-> df.last - (m - i) * HOUR,
                         load |-> CsvLoad(df.last - (m - i) * HOUR)]]

\* ---------------------------------------------------------------- features
\* weather_service.get_weather_for_hours: one record per timestamp
Weather(ts) == [temperature |-> 20 + (HourOf(ts) % 12)]

\* index of the first row of h (in frame order) with the given timestamp,
\* 0 when there is none
FirstAt(h, ts) ==
    LET S == {i \in 1..Len(h) : h[i].timestamp = ts}
    IN  IF S = {} THEN 0 ELSE CHOOSE i \in S : \A j \in S : i <= j

\* mean of the loads of the rows of h with timestamp > bound (the sum is
\* the cardinality of the bag holding row i load-many times), dflt when
\* no row qualifies
RollMean(h, bound, dflt) ==
    LET S == {i \in 1..Len(h) : h[i].timestamp > bound}
        P == {i \in S : h[i].load > 0}
    IN  IF S = {} THEN dflt
        ELSE BagCardinality([i \in P |-> h[i].load]) \div Cardinality(S)

build_feature_row(timestamp, history_df, weather) ==
    LET i1 == FirstAt(history_df, timestamp - HOUR)
        lag_1 == IF i1 # 0 THEN history_df[i1].load
                 ELSE history_df[Len(history_df)].load
        i24 == FirstAt(history_df, timestamp - 24 * HOUR)
        lag_24 == IF i24 # 0 THEN history_df[i24].load ELSE lag_1
        i168 == FirstAt(history_df, timestamp - 168 * HOUR)
        lag_168 == IF i168 # 0 THEN history_df[i168].load ELSE lag_24
        roll24 == RollMean(history_df, timestamp - 24 * HOUR, lag_1)
        roll168 == RollMean(history_df, timestamp - 168 * HOUR, roll24)
    IN  [hour |-> HourOf(timestamp),
         temperature_2m |-> weather.temperature,
         lag_1 |-> lag_1, lag_24 |-> lag_24, lag_168 |-> lag_168,
         roll24 |-> roll24, roll168 |-> roll168]

\* ------------------------------------------------------------------ models
\* The trained artifacts are opaque: a baseline model is a record of
\* coefficients, the residual corrector likewise; both are deterministic.
LgbmPredict(m, fv) ==
    m.bias + (m.num * fv.lag_1) \div m.den + fv.hour - fv.temperature_2m

\* residual_scaler.transform / inverse_transform (StandardScaler)
residual_scaler == [mean |-> 9, scale |-> 3]
ScalerTransform(x) ==
    IF x >= residual_scaler.mean
    THEN (x - residual_scaler.mean) \div residual_scaler.scale
    ELSE 0 - ((residual_scaler.mean - x) \div residual_scaler.scale)
ScalerInverse(y) == y * residual_scaler.scale + residual_scaler.mean

TransformerPredict(t, seq) ==
    LET last == seq[Len(seq)]
    IN  t.bias - (IF last >= 0 THEN last \div 2 ELSE 0 - ((0 - last) \div 2))

\* the hybrid value with the floor removed
Unfloored(hybrid) == hybrid

\* max(0.0, float(hybrid)): no prediction is negative
FloorAtZero(hybrid) == Max(0, hybrid)

\* ------------------------------------------------- predict_future_iterative
\* the weather columns a history row lacks default to 25.0 etc.
WeatherHist == [temperature |-> 25]

\* residual_sequence before the loop: scaled (load - baseline) of the last
\* 168 history rows, each baseline from the features of the history prefix
\* ending at that row
InitialResidualSequence(lgbm, transformer, working_history) ==
    IF transformer = None THEN [isNone |-> TRUE, seq |-> << >>]
    ELSE LET n == Len(working_history)
             lo == Max(0, n - SEQ_LEN)
             hist_residuals ==
                 [k \in 1..(n - lo) |->
                    LET idx == lo + k
                        fv == build_feature_row(
                                  working_history[idx].timestamp,
                                  SubSeq(working_history, 1, idx),
                                  WeatherHist)
                    IN  ScalerTransform(working_history[idx].load
                                        - LgbmPredict(lgbm, fv))]
         IN  [isNone |-> FALSE, seq |-> TailN(hist_residuals, SEQ_LEN)]

\* what a run has collected; history_sizes and sequence_sizes are
\* len(working_history) and len(residual_sequence) at the end of each step
\* (-1: residual_sequence is None)
EmptyResult ==
    [raised |-> FALSE, start_timestamp |-> 0, timestamps |-> << >>,
     predictions |-> << >>, baselines |-> << >>, residuals |-> << >>,
     history_sizes |-> << >>, sequence_sizes |-> << >>]

\* an exception leaves the function: nothing is returned
Raised == [EmptyResult EXCEPT !.raised = TRUE]

\* the loop "for hour_idx in range(horizon)"; failStep is the 1-based step
\* whose lgbm_model.predict call raises (0: no call raises)
RECURSIVE IterLoop(_, _, _, _, _, _, _, _, _)
IterLoop(hour_idx, horizon, current_ts, working_history, residual_sequence, acc, lgbm, transformer, failStep) ==
    IF hour_idx >= horizon THEN acc
    ELSE IF failStep = hour_idx + 1 THEN Raised
    ELSE
      LET weather == Weather(current_ts)
          fv == build_feature_row(current_ts, working_history, weather)
          baseline == LgbmPredict(lgbm, fv)
          correct == /\ transformer # None
                     /\ ~residual_sequence.isNone
                     /\ Len(residual_sequence.seq) >= 168
          residual_scaled ==
              TransformerPredict(transformer,
                                 TailN(residual_sequence.seq, 168))
          residual == IF correct THEN ScalerInverse(residual_scaled) ELSE 0
          next_sequence ==
              IF correct
              THEN [residual_sequence EXCEPT
                      !.seq = Append(Tail(@), residual_scaled)]
              ELSE residual_sequence
          prediction == FloorAtZero(baseline + residual)
          new_row == [timestamp |-> current_ts, load |-> prediction]
      IN  IterLoop(hour_idx + 1, horizon, current_ts + HOUR,
                   Append(working_history, new_row), next_sequence,
                   [acc EXCEPT !.timestamps = Append(@, IsoFormat(current_ts)),
                               !.predictions = Append(@, prediction),
                               !.baselines = Append(@, baseline),
                               !.residuals = Append(@, residual),
                               !.history_sizes =
                                   Append(@, Len(working_history) + 1),
                               !.sequence_sizes =
                                   Append(@, IF next_sequence.isNone
                                             THEN 0 - 1
                                             ELSE Len(next_sequence.seq))],
                   lgbm, transformer, failStep)

\* the loop stops at the failing step and what it collected is returned
predict_future_iterative_partial(start_timestamp, horizon, history_df, lgbm, transformer, failStep) ==
    IterLoop(0, IF failStep = 0 THEN horizon ELSE Min(horizon, failStep - 1),
             start_timestamp, history_df,
             InitialResidualSequence(lgbm, transformer, history_df),
             [EmptyResult EXCEPT !.start_timestamp = start_timestamp],
             lgbm, transformer, 0)

predict_future_iterative(start_timestamp, horizon, history_df, lgbm, transformer, failStep) ==
    IterLoop(0, horizon, start_timestamp, history_df,
             InitialResidualSequence(lgbm, transformer, history_df),
             [EmptyResult EXCEPT !.start_timestamp = start_timestamp],
             lgbm, transformer, failStep)

\* ------------------------------------------------------ predict_24h_from_csv
\* the feature columns recorded in the dataset row of ts (columns of the
\* file, like the load)
CsvRow(ts) ==
    [hour |-> HourOf(ts),
     temperature_2m |-> Weather(ts).temperature,
     lag_1 |-> CsvLoad(ts - HOUR),
     lag_24 |-> CsvLoad(ts - 24 * HOUR),
     lag_168 |-> CsvLoad(ts - 168 * HOUR),
     roll24 |-> 1015 + 5 * (DateOf(ts) % 3),
     roll168 |-> 1020]

\* _compute_residuals_from_data(df, start_idx - 168, start_idx)
HistoricalResiduals(df, start_idx, lgbm) ==
    [k \in 1..SEQ_LEN |->
       LET ts == df.first + (start_idx - SEQ_LEN + k - 1) * HOUR
       IN  ScalerTransform(CsvLoad(ts) - LgbmPredict(lgbm, CsvRow(ts)))]

\* the lists of the loop before its first pass, with current_residuals
ReplayStart(start_timestamp, historical_residuals) ==
    [raised |-> FALSE, start_timestamp |-> start_timestamp,
     timestamps |-> << >>, predictions |-> << >>, baselines |-> << >>,
     residuals |-> << >>, current_residuals |-> historical_residuals]

\* the loop "for h in range(hours)" over the dataset rows from start_idx
\* on; h is the number of predictions appended so far
RECURSIVE ReplayLoop(_, _, _, _, _, _)
ReplayLoop(hours, df, start_idx, acc, lgbm, transformer) ==
    IF Len(acc.predictions) >= hours THEN acc
    ELSE
      LET h == Len(acc.predictions)
          ts == df.first + (start_idx + h) * HOUR
          current_residuals == acc.current_residuals
          baseline == LgbmPredict(lgbm, CsvRow(ts))
          correct == /\ transformer # None
                     /\ Len(current_residuals) >= SEQ_LEN
          residual_scaled ==
              TransformerPredict(transformer,
                                 TailN(current_residuals, SEQ_LEN))
          residual == IF correct THEN ScalerInverse(residual_scaled) ELSE 0
          next_residuals ==
              IF correct THEN Append(Tail(current_residuals), residual_scaled)
              ELSE current_residuals
      IN  ReplayLoop(hours, df, start_idx,
                     [acc EXCEPT !.timestamps = Append(@, ts),
                                 !.predictions =
                                     Append(@, FloorAtZero(baseline
                                                           + residual)),
                                 !.baselines = Append(@, baseline),
                                 !.residuals = Append(@, residual),
                                 !.current_residuals = next_residuals],
                     lgbm, transformer)

predict_24h_from_csv(df, start_timestamp, lgbm, transformer) ==
    IF ~DfHas(df, start_timestamp) THEN Raised
    ELSE LET start_idx == DfIdx(df, start_timestamp)
         IN  IF start_idx < SEQ_LEN THEN Raised
             ELSE IF start_idx + REPLAY_HOURS > DfLen(df) THEN Raised
             ELSE ReplayLoop(REPLAY_HOURS, df, start_idx,
                             ReplayStart(start_timestamp,
                                 HistoricalResiduals(df, start_idx, lgbm)),
                             lgbm, transformer)

\* ---------------------------------------- predict_7day_daily_means_from_csv
\* hourly_preds_arr.reshape(7, 24).mean(axis=1)
DailyMeans(hourly) ==
    [d \in 1..WEEK_DAYS |->
       BagCardinality([i \in {j \in 1..HOURS_PER_DAY :
                                hourly[(d - 1) * HOURS_PER_DAY + j] > 0} |->
                         hourly[(d - 1) * HOURS_PER_DAY + i]])
         \div HOURS_PER_DAY]

\* the loop "for h in range(168)", evaluated a day of rows at a time
RECURSIVE ReplayDays(_, _, _, _, _, _)
ReplayDays(days, df, start_idx, acc, lgbm, transformer) ==
    IF days = 0 THEN acc
    ELSE ReplayLoop(days * HOURS_PER_DAY, df, start_idx,
                    ReplayDays(days - 1, df, start_idx, acc, lgbm,
                               transformer),
                    lgbm, transformer)

predict_7day_daily_means_from_csv(df, start_timestamp, lgbm, transformer) ==
    IF ~DfHas(df, start_timestamp) THEN Raised
    ELSE LET start_idx == DfIdx(df, start_timestamp)
         IN  IF start_idx < SEQ_LEN THEN Raised
             ELSE IF start_idx + WEEK_HOURS > DfLen(df) THEN Raised
             ELSE LET hourly ==
                          ReplayDays(WEEK_DAYS, df, start_idx,
                                     ReplayStart(start_timestamp,
                                         HistoricalResiduals(df, start_idx,
                                                             lgbm)),
                                     lgbm, transformer)
                  IN  [raised |-> FALSE,
                       start_timestamp |-> start_timestamp,
                       daily_mean_predictions |->
                           DailyMeans(hourly.predictions),
                       hourly_predictions |-> hourly.predictions]

\* ------------------------------------------------------- CacheService (Redis)
\* json.dumps(payload, default=str) of a list of floats, json.loads back:
\* the text is the list of the number literals
JsonDumps(payload) == [i \in 1..Len(payload) |-> <<"num", payload[i]>>]
JsonLoads(text) == [i \in 1..Len(text) |-> text[i][2]]

\* a Redis entry: << >> when the key is absent, else <<text, ttl>>
NoEntry == << >>
CacheMiss == [hit |-> FALSE, value |-> << >>]

get_forecast(client, store, key) ==
    IF ~client THEN CacheMiss
    ELSE IF store[key] = NoEntry THEN CacheMiss
    ELSE [hit |-> TRUE, value |-> JsonLoads(store[key][1])]

store_forecast(client, store, key, payload, ttl_seconds) ==
    IF ~client THEN store
    ELSE [store EXCEPT ![key] = <<JsonDumps(payload), ttl_seconds>>]

\* ------------------------------------------------------------ day-block cache
\* get_hourly_predictions / store_hourly_predictions: keyed by calendar
\* date, a block is 24 ordered predictions; << >> is a miss
\* the lookup reads the key of the day before
get_previous_day(cache, date_str) ==
    IF (date_str - 1) \in DOMAIN cache THEN cache[date_str - 1] ELSE << >>

get_hourly_predictions(cache, date_str) == cache[date_str]

\* the store without the length check
store_any_length(cache, date_str, predictions) ==
    [cache EXCEPT ![date_str] = predictions]

store_hourly_predictions(cache, date_str, predictions) ==
    IF Len(predictions) # HOURS_PER_DAY THEN cache
    ELSE [cache EXCEPT ![date_str] = predictions]

\* ------------------------------------------------- legacy HybridPredictor
\* HybridPredictor.predict_horizon of services/predictor.py: XGBoost baseline
\* plus residual per hour, floored at zero
XgbPredict(xgb, ts) == xgb.bias + 10 * HourOf(ts) - Weather(ts).temperature

\* the Keras residual model of the legacy predictor, added unscaled
LegacyResidual(t) == IF t = None THEN 0 ELSE t.bias

\* baseline_values and residuals of predict_horizon
legacy_baselines(xgb, timestamp, horizon) ==
    [i \in 1..horizon |-> XgbPredict(xgb, timestamp + (i - 1) * HOUR)]

legacy_residuals(t, horizon) == [i \in 1..horizon |-> LegacyResidual(t)]

\* hybrid_values of predict_horizon
legacy_predictions(xgb, t, timestamp, horizon) ==
    [i \in 1..horizon |->
       FloorAtZero(XgbPredict(xgb, timestamp + (i - 1) * HOUR)
                   + LegacyResidual(t))]

\* hybrid_value of predict
legacy_predict(xgb, t, timestamp) ==
    FloorAtZero(XgbPredict(xgb, timestamp) + LegacyResidual(t))

\* ------------------------------------------------------- StorageService
\* A row of hourly_actuals: ts and demand (the optional columns are filled
\* with None by append_actuals and play no part here).  The table is a bag
\* of rows.
\* the key of hourly_actuals, as the table definition declares it and the
\* upsert names it ("ON CONFLICT (ts)")
PrimaryKey(row) == row.ts

RowsAt(table, ts) == {r \in BagToSet(table) : r.ts = ts}

\* INSERT OR REPLACE / ON CONFLICT (ts) DO UPDATE: the rows that hold the
\* timestamp give way to the new row
InsertPlain(table, row) == table (+) SetToBag({row})

InsertOrReplace(table, row) ==
    LET kept == {r \in BagToSet(table) : PrimaryKey(r) # PrimaryKey(row)}
    IN  [r \in kept |-> table[r]] (+) SetToBag({row})

\* "for _, row in df.iterrows(): conn.execute(query, row_dict)"
RECURSIVE AppendRows(_, _, _)
AppendRows(table, rows, i) ==
    IF i > Len(rows) THEN table
    ELSE AppendRows(InsertOrReplace(table, rows[i]), rows, i + 1)

append_actuals(table, rows) ==
    [table |-> AppendRows(table, rows, 1), rows_inserted |-> Len(rows)]

\* get_row_count: SELECT COUNT(*)
get_row_count(table) == BagCardinality(table)

\* the rows of S in ascending ts
SortByTs(S) ==
    [i \in 1..Cardinality(S) |->
       CHOOSE r \in S : Cardinality({q \in S : q.ts < r.ts}) = i - 1]

\* the same query ordered by ts ascending
get_first_n_hours(table, n, until_ts) ==
    LET before == {r \in BagToSet(table) : r.ts < until_ts}
        limited == {r \in before :
                      Cardinality({q \in before : q.ts < r.ts}) < n}
    IN  IF limited = {} THEN [raised |-> TRUE, rows |-> << >>]
        ELSE [raised |-> FALSE, rows |-> SortByTs(limited)]

\* SELECT ... WHERE ts < :until_ts ORDER BY ts DESC LIMIT :n, then
\* sort_values('ts'); ValueError when the query returns no row
get_last_n_hours(table, n, until_ts) ==
    LET before == {r \in BagToSet(table) : r.ts < until_ts}
        limited == {r \in before :
                      Cardinality({q \in before : q.ts > r.ts}) < n}
    IN  IF limited = {} THEN [raised |-> TRUE, rows |-> << >>]
        ELSE [raised |-> FALSE, rows |-> SortByTs(limited)]

\* count consecutive hourly rows from hour "from" on, demand base + i
StoreBatch(from, count, base) ==
    [i \in 1..count |-> [ts |-> (from + i - 1) * HOUR, demand |-> base + i]]

\* the DataFrames handed to append_actuals: ten hours, twenty-five hours
\* that overlap them, a single hour, and a frame that names an hour twice
Batches ==
    { StoreBatch(0, 10, 100),
      StoreBatch(5, 25, 200),
      StoreBatch(3, 1, 300),
      << [ts |-> 40 * HOUR, demand |-> 1], [ts |-> 40 * HOUR, demand |-> 2] >> }

\* the demand the frame carries last for a timestamp
LastDemandIn(rows, ts) ==
    LET S == {i \in 1..Len(rows) : rows[i].ts = ts}
    IN  rows[CHOOSE i \in S : \A j \in S : j <= i].demand

\* ------------------------------------------------------- the rate limiter
RATE_LIMIT == 60
RATE_WINDOW == 60

\* request.client.host of the callers
ClientIps == {"10.0.0.1", "10.0.0.2"}

\* the values time() takes: a start, one second before the window of the
\* start closes, and the second it closes
ClockTimes == {0, 59, 60}

\* requests recorded for the second address (the first is not bounded)
MaxOtherRequests == 2

\* the test of the clean-up keeps a request of exactly 60 seconds
CountsInclusive(current_time, req_time) ==
    current_time - req_time <= RATE_WINDOW

\* "if current_time - req_time < RATE_WINDOW"
Counts(current_time, req_time) ==
    current_time - req_time < RATE_WINDOW

\* "Clean old entries": the recorded times that still count, in order
CleanOld(times, current_time) ==
    SelectSeq(times, LAMBDA req_time : Counts(current_time, req_time))

\* check_rate_limit(request) for client_ip at current_time: the store
\* after the call and the status (429: HTTPException, 200: it returned)
check_rate_limit(store, client_ip, current_time) ==
    LET cleaned == [store EXCEPT ![client_ip] = CleanOld(@, current_time)]
    IN  IF Len(cleaned[client_ip]) >= RATE_LIMIT
        THEN [store |-> cleaned, status |-> 429]
        ELSE [store |-> [cleaned EXCEPT
                           ![client_ip] = Append(@, current_time)],
              status |-> 200]

\* ------------------------------------------------ the forecast cache keys
\* the frames the seeding writes: thirty recorded hours, and the same
\* hours with the demand of the first five revised
RevisedBatch(rows, count, base) ==
    [i \in 1..Len(rows) |->
        IF i <= count THEN [ts |-> rows[i].ts, demand |-> base + i]
        ELSE rows[i]]

HistoryFrames ==
    {StoreBatch(0, 30, 100), RevisedBatch(StoreBatch(0, 30, 100), 5, 300)}

\* the hour the stored-history forecasts are asked for
ForecastStart == 29 * HOUR

\* compute_history_hash(demand_values[-24:]) of the rows before timestamp;
\* the digest is modelled as the hashed values themselves (no collisions)
HistoryHash(table, timestamp) ==
    LET rows == get_last_n_hours(table, SEQ_LEN, timestamp).rows
    IN  TailN([i \in 1..Len(rows) |-> rows[i].demand], 24)

\* build_forecast_key(forecast_type, timestamp, history_hash)
build_forecast_key(forecast_type, timestamp, history_hash) ==
    <<forecast_type, timestamp, history_hash>>

\* the keys the stored-history forecasts can write
DbForecastKeys ==
    {build_forecast_key(type, ForecastStart,
                        HistoryHash(AppendRows(EmptyBag, f, 1), ForecastStart)) :
       type \in {"hourly", "hourly_horizon"}, f \in HistoryFrames}

\* ------------------------------------------------------------------- state
Workers == {"w1", "w2"}

VARIABLES
    df,              \* the dataset file: [first, last] recorded hour
    lgbm,            \* csv_predictor.lgbm_model
    transformer,     \* csv_predictor.transformer_model (None: not loaded)
    xgb,             \* the legacy predictor's xgb_model (None: not loaded)
    redis_client,    \* whether get_redis_client() returns a client
    redis,           \* key -> entry of the Redis store
    dayCache,        \* date -> day block
    passes,          \* date -> 24-hour midnight passes executed for it
    clients,         \* worker -> requests it may receive
    pc,              \* worker -> position in predict_horizon
    req,             \* worker -> pred_request
    history_df,      \* worker -> rolling history
    current_gap_ts,  \* worker -> gap cursor
    gap_predictions, \* worker -> loads collected for the gap
    gap_timestamps,  \* worker -> timestamps collected for the gap
    gap_iterations,  \* worker -> passes of the gap loop body completed
    cache_bound,     \* worker -> the local name "cache" is assigned
    model_failed,    \* worker -> a model call raised during the request
    iterative_call,  \* worker -> the last predict_future_iterative call
    response,        \* worker -> what the endpoint returned
    lastOp,          \* the last direct call of a service
    hourly_actuals,  \* the table hourly_actuals: a bag of rows
    appended,        \* timestamp -> demand of the latest row appended for it
    caller_history,  \* the DataFrame a caller hands to the predictor
    runs,            \* the last two direct runs of predict_future_iterative
    current_day,     \* worker -> the day the weekly loop is at
    all_hourly_predictions, \* worker -> hourly values the weekly loop collected
    rate_limit_store,       \* client IP -> times of its recorded requests
    clock                   \* what time() returns, in seconds

vars == <<df, lgbm, transformer, xgb, redis_client, redis, dayCache, passes,
          clients, pc, req, history_df, current_gap_ts, gap_predictions,
          gap_timestamps, gap_iterations, cache_bound, model_failed,
          iterative_call, response, lastOp, hourly_actuals, appended,
          caller_history, runs, current_day, all_hourly_predictions,
          rate_limit_store, clock>>

envVars == <<df, lgbm, transformer, xgb, redis_client, clients>>
serviceVars == <<hourly_actuals, appended, caller_history, runs>>
weeklyVars == <<current_day, all_hourly_predictions>>
limiterVars == <<rate_limit_store, clock>>
localVars == <<history_df, current_gap_ts, gap_predictions, gap_timestamps,
               gap_iterations, cache_bound, iterative_call>>

HALF == HOUR \div 2

\* deployments: the recorded range, the loaded artifacts, Redis or not
Environments ==
    { [df |-> [first |-> 0, last |-> 15 * DAY - HOUR],
       lgbm |-> [bias |-> 30, num |-> 1, den |-> 1],
       transformer |-> [present |-> TRUE, bias |-> 0 - 40],
       xgb |-> [present |-> TRUE, bias |-> 0 - 60],
       redis_client |-> TRUE],
      [df |-> [first |-> 0, last |-> 14 * DAY + 10 * HOUR],
       lgbm |-> [bias |-> 0 - 700, num |-> 1, den |-> 2],
       transformer |-> None,
       xgb |-> None,
       redis_client |-> FALSE] }

CacheDates(d) == DateOf(d.last) .. (DateOf(d.last) + MaxGapDays + 1)

\* the first day after the recorded data, and the seven dates a weekly
\* forecast from that day covers
FirstFutureDay(d) == DayStart(d.last) + DAY
WeekDates(d) ==
    DateOf(FirstFutureDay(d)) .. (DateOf(FirstFutureDay(d)) + WEEK_DAYS - 1)

\* a block an earlier request left in the day cache
SeedBlock(date) == [i \in 1..HOURS_PER_DAY |-> 800 + 10 * date + i]

\* the dates earlier requests left cached
SeedPatterns(d) == SUBSET CacheDates(d)

Horizons == {1, 12, 24, 30}

\* request starts after the last recorded hour, in half hours after it
FutureOffsets ==
    {1, 2, 3, 4, 28} \cup {48 * d + 2 : d \in 1..MaxGapDays}
                     \cup {48 * d + 4 : d \in 1..MaxGapDays}

FutureStarts(d) == {d.last + k * HALF : k \in FutureOffsets}

HistoricalStarts(d) ==
    {d.last - k * HOUR : k \in {0, 22, 23, 24, 30}}
      \cup {d.last - 23 * HOUR - HALF}
      \cup {d.first + k * HOUR : k \in {166, 167, 168}}

\* POST /predict/horizon, POST /predict and the weekly forecast of a date
Requests(d) ==
    [endpoint : {"horizon"},
     timestamp : FutureStarts(d) \cup HistoricalStarts(d),
     horizon : Horizons]
      \cup [endpoint : {"predict"},
            timestamp : FutureStarts(d) \cup HistoricalStarts(d),
            horizon : {1}]
      \cup [endpoint : {"weekly"},
            timestamp : {DayStart(d.first + SEQ_LEN * HOUR),
                         DayStart(d.last), FirstFutureDay(d)},
            horizon : {WEEK_HOURS}]

\* two workers asked for future starts at the same time
ConcurrentRequests(d) ==
    [endpoint : {"horizon"},
     timestamp : {d.last + 50 * HALF, d.last + 52 * HALF, d.last + HALF},
     horizon : {24}]

\* the deployments of the multi-process runs
ConcurrentEnvironments ==
    { [df |-> [first |-> 0, last |-> 15 * DAY - HOUR],
       lgbm |-> [bias |-> 30, num |-> 1, den |-> 1],
       transformer |-> None,
       xgb |-> [present |-> TRUE, bias |-> 0 - 60],
       redis_client |-> TRUE],
      [df |-> [first |-> 0, last |-> 14 * DAY + 10 * HOUR],
       lgbm |-> [bias |-> 0 - 700, num |-> 1, den |-> 2],
       transformer |-> None,
       xgb |-> None,
       redis_client |-> FALSE] }

RedisKeys(d) ==
    {<<"hourly_horizon", r.timestamp>> : r \in Requests(d)}
      \cup {<<"hourly", r.timestamp>> : r \in Requests(d)}
      \cup DbForecastKeys

NoRequest == [endpoint |-> "none", timestamp |-> 0, horizon |-> 0]
NoResponse == [status |-> 0]
NoCall == [horizon |-> 0]
NoOp == [op |-> "none"]
NoRun == [horizon |-> 0]

InitCommon(env, seeded) ==
    /\ df = env.df
    /\ lgbm = env.lgbm
    /\ transformer = env.transformer
    /\ xgb = env.xgb
    /\ redis_client = env.redis_client
    /\ redis = [k \in RedisKeys(env.df) |-> NoEntry]
    /\ dayCache = [x \in CacheDates(env.df) \cup WeekDates(env.df) |->
                       IF x \in seeded THEN SeedBlock(x) ELSE << >>]
    /\ passes = [x \in CacheDates(env.df) \cup WeekDates(env.df) |-> 0]
    /\ pc = [w \in Workers |-> "idle"]
    /\ req = [w \in Workers |-> NoRequest]
    /\ history_df = [w \in Workers |-> << >>]
    /\ current_gap_ts = [w \in Workers |-> 0]
    /\ gap_predictions = [w \in Workers |-> << >>]
    /\ gap_timestamps = [w \in Workers |-> << >>]
    /\ gap_iterations = [w \in Workers |-> 0]
    /\ cache_bound = [w \in Workers |-> FALSE]
    /\ model_failed = [w \in Workers |-> FALSE]
    /\ iterative_call = [w \in Workers |-> NoCall]
    /\ response = [w \in Workers |-> NoResponse]
    /\ lastOp = NoOp
    /\ hourly_actuals = EmptyBag
    /\ appended = [x \in {} |-> 0]
    /\ caller_history = DfTail(env.df, SEQ_LEN)
    /\ runs = [prev |-> NoRun, last |-> NoRun]
    /\ current_day = [w \in Workers |-> 0]
    /\ all_hourly_predictions = [w \in Workers |-> << >>]
    /\ rate_limit_store = [ip \in ClientIps |-> << >>]
    /\ clock = 0

\* one process: the handler has no await, requests are served one by one
Init ==
    \E env \in Environments :
      \E seeded \in SeedPatterns(env.df) :
        /\ InitCommon(env, seeded)
        /\ clients = [w \in Workers |->
                         IF w = "w1" THEN Requests(env.df) ELSE {}]

\* several worker processes share the caches
InitConcurrent ==
    \E env \in ConcurrentEnvironments :
        /\ InitCommon(env, {})
        /\ clients = [w \in Workers |-> ConcurrentRequests(env.df)]

\* ------------------------------------------- predict_horizon (the endpoint)
\* pd.DataFrame({'timestamp': ..., 'load': ...})
Rows(timestamps, loads) ==
    [i \in 1..Len(timestamps) |->
       [timestamp |-> timestamps[i], load |-> loads[i]]]

\* [start + timedelta(hours=i) for i in range(n)]
HourlyFrom(start, n) == [i \in 1..n |-> start + (i - 1) * HOUR]

\* intervals whose margin narrows by one with every hour
NarrowingIntervals(predictions) ==
    [i \in 1..Len(predictions) |->
       [lower |-> Max(0, predictions[i] - (CI_MARGIN - i)),
        upper |-> predictions[i] + (CI_MARGIN - i),
        margin |-> CI_MARGIN - i]]

\* 'lower': max(0, p - 175), 'upper': p + 175, 'margin': 175
ConfidenceIntervals(predictions) ==
    [i \in 1..Len(predictions) |->
       [lower |-> Max(0, predictions[i] - CI_MARGIN),
        upper |-> predictions[i] + CI_MARGIN,
        margin |-> CI_MARGIN]]

\* formatted_result of the future branch
FormatIterative(result, served_by) ==
    [status |-> 200,
     path |-> served_by,
     timestamp |-> result.start_timestamp,
     horizon |-> Len(result.predictions),
     predictions |-> result.predictions,
     confidence_intervals |-> ConfidenceIntervals(result.predictions),
     baselines |-> result.baselines,
     residuals |-> result.residuals,
     metadata |-> [data_source |-> "iterative_forecast",
                   model |-> "lgbm_transformer_hybrid",
                   method |-> "hour_by_hour_with_lag_updates",
                   units |-> "MW",
                   actuals_available |-> 0]]

\* formatted_result of the dataset branch
FormatCsv(result, d) ==
    [status |-> 200,
     path |-> "replay",
     timestamp |-> result.start_timestamp,
     horizon |-> Len(result.predictions),
     predictions |-> result.predictions,
     confidence_intervals |-> ConfidenceIntervals(result.predictions),
     baselines |-> result.baselines,
     residuals |-> result.residuals,
     metadata |-> [data_source |-> "csv",
                   model |-> "lgbm_transformer_hybrid",
                   csv_file |-> "scripts/master_db.csv",
                   units |-> "MW",
                   actuals_available |-> Len(result.predictions),
                   last_available_data |-> d.last]]

ErrorResponse(code) == [status |-> code, path |-> "error"]

\* steps of a pass at which the baseline model call may raise (0: never)
FailSteps == {0, 3}

\* timestamp_dt > last_available_ts: history, gap length, gap cursor
StartFuture(w) ==
    /\ pc[w] = "idle"
    /\ \E r \in clients[w] :
         /\ r.endpoint = "horizon"
         /\ r.timestamp > df.last
         /\ LET hours_gap == HoursBetween(r.timestamp, df.last)
            IN  /\ req' = [req EXCEPT ![w] = r]
                /\ history_df' = [history_df EXCEPT ![w] = DfTail(df, 168)]
                /\ IF hours_gap > 0
                   THEN /\ cache_bound' = [cache_bound EXCEPT ![w] = TRUE]
                        /\ current_gap_ts' =
                              [current_gap_ts EXCEPT ![w] = df.last + HOUR]
                        /\ pc' = [pc EXCEPT ![w] = "gap_loop"]
                   ELSE /\ pc' = [pc EXCEPT ![w] = "final_lookup"]
                        /\ UNCHANGED <<cache_bound, current_gap_ts>>
    /\ UNCHANGED <<envVars, limiterVars, serviceVars, weeklyVars, redis, dayCache, passes, gap_predictions,
                   gap_timestamps, gap_iterations, model_failed,
                   iterative_call, response, lastOp>>

\* while current_gap_ts < timestamp_dt: the day is cached
GapCached(w) ==
    /\ pc[w] = "gap_loop"
    /\ current_gap_ts[w] < req[w].timestamp
    /\ gap_iterations[w] < MaxGapIterations
    /\ LET date_str == DateOf(current_gap_ts[w])
           cached_day == get_hourly_predictions(dayCache, date_str)
           hour_in_day == HourOf(current_gap_ts[w])
           hours_to_take ==
               Min(24 - hour_in_day,
                   HoursBetween(req[w].timestamp, current_gap_ts[w]))
       IN  /\ cached_day # << >>
           /\ gap_predictions' =
                 [gap_predictions EXCEPT ![w] =
                    @ \o Slice(cached_day, hour_in_day,
                               hour_in_day + hours_to_take)]
           /\ gap_timestamps' =
                 [gap_timestamps EXCEPT ![w] =
                    @ \o HourlyFrom(current_gap_ts[w], hours_to_take)]
           /\ current_gap_ts' =
                 [current_gap_ts EXCEPT ![w] = @ + hours_to_take * HOUR]
    /\ gap_iterations' = [gap_iterations EXCEPT ![w] = @ + 1]
    /\ UNCHANGED <<envVars, limiterVars, serviceVars, weeklyVars, redis, dayCache, passes, pc, req, history_df,
                   cache_bound, model_failed, iterative_call, response,
                   lastOp>>

\* while current_gap_ts < timestamp_dt: the day is not cached
GapMiss(w) ==
    /\ pc[w] = "gap_loop"
    /\ current_gap_ts[w] < req[w].timestamp
    /\ gap_iterations[w] < MaxGapIterations
    /\ get_hourly_predictions(dayCache, DateOf(current_gap_ts[w])) = << >>
    /\ pc' = [pc EXCEPT ![w] = "gap_predict"]
    /\ UNCHANGED <<envVars, limiterVars, serviceVars, weeklyVars, redis, dayCache, passes, req, localVars,
                   model_failed, response, lastOp>>

\* the else branch: predict the whole day, cache it, extend gap and history
GapPredict(w) ==
    /\ pc[w] = "gap_predict"
    /\ \E failStep \in FailSteps :
       \E day_result \in
            {predict_future_iterative(DayStart(current_gap_ts[w]), 24,
                                      history_df[w], lgbm, transformer,
                                      failStep)} :
         LET date_str == DateOf(current_gap_ts[w])
             day_start == DayStart(current_gap_ts[w])
             hours_in_day ==
                 Min(24, HoursBetween(req[w].timestamp, day_start))
             hour_in_day == HourOf(current_gap_ts[w])
             hours_to_take == Min(24 - hour_in_day, hours_in_day)
             day_df == Rows([i \in 1..Len(day_result.timestamps) |->
                               ToDatetime(day_result.timestamps[i])],
                            day_result.predictions)
         IN  /\ passes' = [passes EXCEPT ![date_str] = @ + 1]
             /\ iterative_call' =
                   [iterative_call EXCEPT ![w] =
                      [start_timestamp |-> day_start, horizon |-> 24,
                       history |-> history_df[w],
                       result |-> day_result]]
             /\ IF day_result.raised
                THEN /\ pc' = [pc EXCEPT ![w] = "fallback"]
                     /\ model_failed' = [model_failed EXCEPT ![w] = TRUE]
                     /\ UNCHANGED <<dayCache, history_df, current_gap_ts,
                                    gap_predictions, gap_timestamps,
                                    gap_iterations, cache_bound>>
                ELSE /\ dayCache' =
                          store_hourly_predictions(dayCache, date_str,
                                                   day_result.predictions)
                     /\ gap_predictions' =
                          [gap_predictions EXCEPT ![w] =
                             @ \o Slice(day_result.predictions, hour_in_day,
                                        hour_in_day + hours_to_take)]
                     /\ gap_timestamps' =
                          [gap_timestamps EXCEPT ![w] =
                             @ \o HourlyFrom(current_gap_ts[w],
                                             hours_to_take)]
                     /\ history_df' =
                          [history_df EXCEPT ![w] = TailN(@ \o day_df, 168)]
                     /\ current_gap_ts' =
                          [current_gap_ts EXCEPT ![w] =
                             @ + hours_to_take * HOUR]
                     /\ gap_iterations' =
                          [gap_iterations EXCEPT ![w] = @ + 1]
                     /\ pc' = [pc EXCEPT ![w] = "gap_loop"]
                     /\ UNCHANGED <<cache_bound, model_failed>>
    /\ UNCHANGED <<envVars, limiterVars, serviceVars, weeklyVars, redis, req, response, lastOp>>

\* the loop ends: "Add all gap predictions to history"
GapExit(w) ==
    /\ pc[w] = "gap_loop"
    /\ ~(current_gap_ts[w] < req[w].timestamp)
    /\ history_df' =
          [history_df EXCEPT ![w] =
             IF gap_predictions[w] # << >>
             THEN TailN(@ \o Rows(gap_timestamps[w], gap_predictions[w]),
                        168)
             ELSE @]
    /\ pc' = [pc EXCEPT ![w] = "final_lookup"]
    /\ UNCHANGED <<envVars, limiterVars, serviceVars, weeklyVars, redis, dayCache, passes, req, current_gap_ts,
                   gap_predictions, gap_timestamps, gap_iterations,
                   cache_bound, model_failed, iterative_call, response,
                   lastOp>>

\* "cache" is assigned only inside "if hours_gap > 0": reading it otherwise
\* raises UnboundLocalError, caught by "except Exception"
FinalUnbound(w) ==
    /\ pc[w] = "final_lookup"
    /\ ~cache_bound[w]
    /\ pc' = [pc EXCEPT ![w] = "fallback"]
    /\ UNCHANGED <<envVars, limiterVars, serviceVars, weeklyVars, redis, dayCache, passes, req, localVars,
                   model_failed, response, lastOp>>

\* the requested day is cached and horizon <= 24
FinalCached(w) ==
    /\ pc[w] = "final_lookup"
    /\ cache_bound[w]
    /\ LET timestamp_dt == req[w].timestamp
           horizon == req[w].horizon
           cached_request_day ==
               get_hourly_predictions(dayCache, DateOf(timestamp_dt))
           preds == Slice(cached_request_day, HourOf(timestamp_dt),
                          HourOf(timestamp_dt) + horizon)
           result == [raised |-> FALSE,
                      start_timestamp |-> timestamp_dt,
                      timestamps |->
                          [i \in 1..horizon |->
                             IsoFormat(timestamp_dt + (i - 1) * HOUR)],
                      predictions |-> preds,
                      baselines |-> preds,
                      residuals |-> [i \in 1..horizon |-> 0]]
       IN  /\ cached_request_day # << >>
           /\ horizon <= 24
           /\ response' =
                 [response EXCEPT ![w] = FormatIterative(result, "cached_day")]
    /\ pc' = [pc EXCEPT ![w] = "done"]
    /\ UNCHANGED <<envVars, limiterVars, serviceVars, weeklyVars, redis, dayCache, passes, req, localVars,
                   model_failed, lastOp>>

\* the requested day is not cached, or horizon > 24
FinalMiss(w) ==
    /\ pc[w] = "final_lookup"
    /\ cache_bound[w]
    /\ ~(/\ get_hourly_predictions(dayCache, DateOf(req[w].timestamp)) # << >>
         /\ req[w].horizon <= 24)
    /\ pc' = [pc EXCEPT ![w] = "final_predict"]
    /\ UNCHANGED <<envVars, limiterVars, serviceVars, weeklyVars, redis, dayCache, passes, req, localVars,
                   model_failed, response, lastOp>>

\* every answered run is cached under its date
AnyRun(timestamp_dt, horizon) == TRUE

\* "if timestamp_dt.hour == 0 and pred_request.horizon == 24"
IsFullDay(timestamp_dt, horizon) == HourOf(timestamp_dt) = 0 /\ horizon = 24

\* "Run iterative prediction", cache a midnight 24-hour result, respond
FinalPredict(w) ==
    /\ pc[w] = "final_predict"
    /\ \E failStep \in FailSteps :
       \E result \in
            {predict_future_iterative(req[w].timestamp, req[w].horizon,
                                      history_df[w], lgbm, transformer,
                                      failStep)} :
         LET timestamp_dt == req[w].timestamp
             horizon == req[w].horizon
             request_date == DateOf(timestamp_dt)
             full_day == IsFullDay(timestamp_dt, horizon)
         IN  /\ passes' = IF full_day /\ timestamp_dt = DayStart(timestamp_dt)
                          THEN [passes EXCEPT ![request_date] = @ + 1]
                          ELSE passes
             /\ iterative_call' =
                   [iterative_call EXCEPT ![w] =
                      [start_timestamp |-> timestamp_dt, horizon |-> horizon,
                       history |-> history_df[w],
                       result |-> result]]
             /\ IF result.raised
                THEN /\ pc' = [pc EXCEPT ![w] = "fallback"]
                     /\ model_failed' = [model_failed EXCEPT ![w] = TRUE]
                     /\ UNCHANGED <<dayCache, response>>
                ELSE /\ dayCache' =
                          IF full_day
                          THEN store_hourly_predictions(dayCache, request_date,
                                                        result.predictions)
                          ELSE dayCache
                     /\ response' =
                          [response EXCEPT ![w] =
                             FormatIterative(result, "iterative")]
                     /\ pc' = [pc EXCEPT ![w] = "done"]
                     /\ UNCHANGED model_failed
    /\ UNCHANGED <<envVars, limiterVars, serviceVars, weeklyVars, redis, req, history_df, current_gap_ts,
                   gap_predictions, gap_timestamps, gap_iterations,
                   cache_bound, lastOp>>

\* "For historical dates": the start the replay is run from
\* df_check.index.get_indexer([t], method='nearest') on the hourly index
NearestIndexed(d, t) ==
    IF t <= d.first THEN d.first
    ELSE IF t >= d.last THEN d.last
    ELSE d.first + (((t - d.first) + HALF) \div HOUR) * HOUR

PredictionStart(d, timestamp_dt) ==
    LET latest_valid_start == d.last - LATEST_VALID_BACK * HOUR
    IN  IF timestamp_dt <= latest_valid_start /\ DfHas(d, timestamp_dt)
        THEN timestamp_dt
        ELSE NearestIndexed(d, latest_valid_start)

\* len(df_check.loc[:prediction_start])
HistoryBefore(d, prediction_start) == DfIdx(d, prediction_start) + 1

\* len(history_before) < 168: HTTPException(400), re-raised as it is
HistoricalInsufficient(w) ==
    /\ pc[w] = "idle"
    /\ \E r \in clients[w] :
         /\ r.endpoint = "horizon"
         /\ ~(r.timestamp > df.last)
         /\ HistoryBefore(df, PredictionStart(df, r.timestamp)) < 168
         /\ req' = [req EXCEPT ![w] = r]
    /\ response' = [response EXCEPT ![w] = ErrorResponse(400)]
    /\ pc' = [pc EXCEPT ![w] = "done"]
    /\ UNCHANGED <<envVars, limiterVars, serviceVars, weeklyVars, redis, dayCache, passes, localVars,
                   model_failed, lastOp>>

\* predict_24h_from_csv returns: the dataset branch answers
HistoricalReplay(w) ==
    /\ pc[w] = "idle"
    /\ \E r \in clients[w] :
         LET prediction_start == PredictionStart(df, r.timestamp)
         IN  /\ r.endpoint = "horizon"
             /\ ~(r.timestamp > df.last)
             /\ ~(HistoryBefore(df, prediction_start) < 168)
             /\ \E result \in {predict_24h_from_csv(df, prediction_start,
                                                     lgbm, transformer)} :
                  /\ ~result.raised
                  /\ req' = [req EXCEPT ![w] = r]
                  /\ response' =
                        [response EXCEPT ![w] = FormatCsv(result, df)]
    /\ pc' = [pc EXCEPT ![w] = "done"]
    /\ UNCHANGED <<envVars, limiterVars, serviceVars, weeklyVars, redis, dayCache, passes, localVars,
                   model_failed, lastOp>>

\* predict_24h_from_csv raises ValueError: caught by "except Exception"
HistoricalReplayError(w) ==
    /\ pc[w] = "idle"
    /\ \E r \in clients[w] :
         LET prediction_start == PredictionStart(df, r.timestamp)
         IN  /\ r.endpoint = "horizon"
             /\ ~(r.timestamp > df.last)
             /\ ~(HistoryBefore(df, prediction_start) < 168)
             /\ \/ ~DfHas(df, prediction_start)
                \/ DfIdx(df, prediction_start) < SEQ_LEN
                \/ DfIdx(df, prediction_start) + REPLAY_HOURS > DfLen(df)
             /\ req' = [req EXCEPT ![w] = r]
    /\ pc' = [pc EXCEPT ![w] = "fallback"]
    /\ UNCHANGED <<envVars, limiterVars, serviceVars, weeklyVars, redis, dayCache, passes, localVars,
                   model_failed, response, lastOp>>

\* "Fallback to original predictor": predictor.predict_horizon raises,
\* the bare except turns it into HTTPException(500)
FallbackFails(w) ==
    /\ pc[w] = "fallback"
    /\ xgb = None
    /\ response' = [response EXCEPT ![w] = ErrorResponse(500)]
    /\ pc' = [pc EXCEPT ![w] = "done"]
    /\ UNCHANGED <<envVars, limiterVars, serviceVars, weeklyVars, redis, dayCache, passes, req, localVars,
                   model_failed, lastOp>>

LegacyResponse(timestamp, predictions, baselines, residuals, cache_hit) ==
    [status |-> 200,
     path |-> "legacy",
     timestamp |-> timestamp,
     horizon |-> Len(predictions),
     predictions |-> predictions,
     confidence_intervals |->
         [i \in 1..Len(predictions) |->
            [lower |-> Max(0, predictions[i] - LEGACY_CI_MARGIN),
             upper |-> predictions[i] + LEGACY_CI_MARGIN,
             margin |-> LEGACY_CI_MARGIN]],
     baselines |-> baselines,
     residuals |-> residuals,
     metadata |-> [data_source |-> "legacy", cache_hit |-> cache_hit]]

\* "Fallback to original predictor": the forecast cache is consulted under
\* the key of the timestamp, a fresh result is stored for 600 seconds (the
\* stored text lists the predictions, the baselines and the residuals)
FallbackLegacy(w) ==
    /\ pc[w] = "fallback"
    /\ xgb # None
    /\ LET cache_key == <<"hourly_horizon", req[w].timestamp>>
           cached == get_forecast(redis_client, redis, cache_key)
           fresh == legacy_predictions(xgb, transformer, req[w].timestamp,
                                       req[w].horizon)
           baselines == legacy_baselines(xgb, req[w].timestamp,
                                         req[w].horizon)
           residuals == legacy_residuals(transformer, req[w].horizon)
           n == Len(cached.value) \div 3
       IN  IF cached.hit
           THEN /\ response' =
                      [response EXCEPT ![w] =
                         LegacyResponse(req[w].timestamp,
                                        SubSeq(cached.value, 1, n),
                                        SubSeq(cached.value, n + 1, 2 * n),
                                        SubSeq(cached.value, 2 * n + 1, 3 * n),
                                        TRUE)]
                /\ UNCHANGED redis
           ELSE /\ response' =
                      [response EXCEPT ![w] =
                         LegacyResponse(req[w].timestamp, fresh, baselines,
                                        residuals, FALSE)]
                /\ redis' = store_forecast(redis_client, redis, cache_key,
                                           fresh \o baselines \o residuals,
                                           LEGACY_TTL)
    /\ pc' = [pc EXCEPT ![w] = "done"]
    /\ UNCHANGED <<envVars, limiterVars, serviceVars, weeklyVars, dayCache, passes, req, localVars,
                   model_failed, lastOp>>

\* ----------------------------------------------- predict (the endpoint)
SingleResponse(timestamp, prediction, cache_hit) ==
    [status |-> 200,
     path |-> "single",
     timestamp |-> timestamp,
     horizon |-> 1,
     predictions |-> <<prediction>>,
     confidence_intervals |->
         << [lower |-> Max(0, prediction - LEGACY_CI_MARGIN),
             upper |-> prediction + LEGACY_CI_MARGIN,
             margin |-> LEGACY_CI_MARGIN] >>,
     metadata |-> [data_source |-> "legacy", cache_hit |-> cache_hit]]

\* POST /predict: predictor.predict with use_cache=True, any exception
\* becomes HTTPException(500)
PredictSingle(w) ==
    /\ pc[w] = "idle"
    /\ \E r \in clients[w] :
         LET cache_key == <<"hourly", r.timestamp>>
             cached == get_forecast(redis_client, redis, cache_key)
             fresh == legacy_predict(xgb, transformer, r.timestamp)
         IN  /\ r.endpoint = "predict"
             /\ req' = [req EXCEPT ![w] = r]
             /\ IF cached.hit
                THEN /\ response' =
                          [response EXCEPT ![w] =
                             SingleResponse(r.timestamp, cached.value[1],
                                            TRUE)]
                     /\ UNCHANGED redis
                ELSE IF xgb = None
                THEN /\ response' =
                          [response EXCEPT ![w] =
                             [status |-> 500, path |-> "single_error"]]
                     /\ UNCHANGED redis
                ELSE /\ response' =
                          [response EXCEPT ![w] =
                             SingleResponse(r.timestamp, fresh, FALSE)]
                     /\ redis' = store_forecast(redis_client, redis,
                                                cache_key, <<fresh>>,
                                                LEGACY_TTL)
    /\ pc' = [pc EXCEPT ![w] = "done"]
    /\ UNCHANGED <<envVars, limiterVars, serviceVars, weeklyVars, dayCache, passes, localVars, model_failed,
                   lastOp>>

\* --------------------------------- predict_weekly: the recorded-data branch
WeeklyResponse(served_by, day_start, daily, hourly) ==
    [status |-> 200,
     path |-> served_by,
     timestamp |-> day_start,
     horizon |-> Len(daily),
     predictions |-> daily,
     hourly_predictions |-> hourly]

\* "Use CSV-based prediction"; any exception: the static fallback
WeeklyHistorical(w) ==
    /\ pc[w] = "idle"
    /\ \E r \in clients[w] :
         LET day_start == r.timestamp
         IN  /\ r.endpoint = "weekly"
             /\ ~(day_start > df.last)
             /\ req' = [req EXCEPT ![w] = r]
             /\ \E result \in {predict_7day_daily_means_from_csv(
                                    df, day_start, lgbm, transformer)} :
                  response' =
                    [response EXCEPT ![w] =
                       IF result.raised
                       THEN WeeklyResponse("weekly_static", day_start,
                                [i \in 1..WEEK_DAYS |->
                                   STATIC_BASE + (i - 1) * STATIC_STEP],
                                << >>)
                       ELSE WeeklyResponse("weekly_replay", day_start,
                                result.daily_mean_predictions,
                                result.hourly_predictions)]
    /\ pc' = [pc EXCEPT ![w] = "done"]
    /\ UNCHANGED <<envVars, limiterVars, serviceVars, weeklyVars, redis, dayCache, passes, localVars,
                   model_failed, lastOp>>

\* ----------------------------------- predict_weekly: beyond the recorded data
\* "All prediction methods failed, using static fallback"
StaticWeekly(day_start) ==
    WeeklyResponse("weekly_static", day_start,
                   [i \in 1..WEEK_DAYS |-> STATIC_BASE + (i - 1) * STATIC_STEP],
                   << >>)

\* day_start > last_available: one run fills the hours up to day_start
WeeklyFutureStart(w) ==
    /\ pc[w] = "idle"
    /\ \E r \in clients[w] :
         /\ r.endpoint = "weekly"
         /\ r.timestamp > df.last
         /\ req' = [req EXCEPT ![w] = r]
         /\ \E failStep \in FailSteps :
            \E gap_result \in
                 {predict_future_iterative(
                      df.last + HOUR, HoursBetween(r.timestamp, df.last),
                      DfTail(df, 168), lgbm, transformer, failStep)} :
              /\ iterative_call' =
                    [iterative_call EXCEPT ![w] =
                       [start_timestamp |-> df.last + HOUR,
                        horizon |-> HoursBetween(r.timestamp, df.last),
                        history |-> DfTail(df, 168),
                        result |-> gap_result]]
              /\ IF gap_result.raised
                 THEN /\ response' =
                           [response EXCEPT ![w] = StaticWeekly(r.timestamp)]
                      /\ model_failed' = [model_failed EXCEPT ![w] = TRUE]
                      /\ pc' = [pc EXCEPT ![w] = "done"]
                      /\ UNCHANGED <<history_df, current_day>>
                 ELSE /\ history_df' =
                           [history_df EXCEPT ![w] =
                              TailN(DfTail(df, 168)
                                      \o Rows([i \in 1..Len(gap_result.timestamps)
                                                 |-> ToDatetime(
                                                        gap_result.timestamps[i])],
                                              gap_result.predictions),
                                    168)]
                      /\ current_day' = [current_day EXCEPT ![w] = r.timestamp]
                      /\ pc' = [pc EXCEPT ![w] = "weekly_days"]
                      /\ UNCHANGED <<response, model_failed>>
    /\ UNCHANGED <<envVars, limiterVars, serviceVars, redis, dayCache, passes,
                   current_gap_ts, gap_predictions, gap_timestamps,
                   gap_iterations, cache_bound, all_hourly_predictions,
                   lastOp>>

\* "for day_offset in range(7)": the day is cached
WeeklyDayCached(w) ==
    /\ pc[w] = "weekly_days"
    /\ current_day[w] < req[w].timestamp + WEEK_DAYS * DAY
    /\ LET cached_day ==
               get_hourly_predictions(dayCache, DateOf(current_day[w]))
       IN  /\ cached_day # << >>
           /\ all_hourly_predictions' =
                 [all_hourly_predictions EXCEPT ![w] = @ \o cached_day]
    /\ current_day' = [current_day EXCEPT ![w] = @ + DAY]
    /\ UNCHANGED <<envVars, limiterVars, serviceVars, redis, dayCache, passes, pc, req,
                   localVars, model_failed, response, lastOp>>

\* the day is not cached: predict it, cache it, extend the history
WeeklyDayPredict(w) ==
    /\ pc[w] = "weekly_days"
    /\ current_day[w] < req[w].timestamp + WEEK_DAYS * DAY
    /\ get_hourly_predictions(dayCache, DateOf(current_day[w])) = << >>
    /\ \E failStep \in FailSteps :
       \E day_result \in
            {predict_future_iterative(current_day[w], 24, history_df[w],
                                      lgbm, transformer, failStep)} :
         LET date_str == DateOf(current_day[w])
             day_df == Rows([i \in 1..Len(day_result.timestamps) |->
                               ToDatetime(day_result.timestamps[i])],
                            day_result.predictions)
         IN  /\ passes' = [passes EXCEPT ![date_str] = @ + 1]
             /\ iterative_call' =
                   [iterative_call EXCEPT ![w] =
                      [start_timestamp |-> current_day[w], horizon |-> 24,
                       history |-> history_df[w],
                       result |-> day_result]]
             /\ IF day_result.raised
                THEN /\ response' =
                          [response EXCEPT ![w] =
                             StaticWeekly(req[w].timestamp)]
                     /\ model_failed' = [model_failed EXCEPT ![w] = TRUE]
                     /\ pc' = [pc EXCEPT ![w] = "done"]
                     /\ UNCHANGED <<dayCache, history_df, weeklyVars>>
                ELSE /\ all_hourly_predictions' =
                          [all_hourly_predictions EXCEPT ![w] =
                             @ \o day_result.predictions]
                     /\ dayCache' =
                          store_hourly_predictions(dayCache, date_str,
                                                   day_result.predictions)
                     /\ history_df' =
                          [history_df EXCEPT ![w] = TailN(@ \o day_df, 168)]
                     /\ current_day' = [current_day EXCEPT ![w] = @ + DAY]
                     /\ UNCHANGED <<response, model_failed, pc>>
    /\ UNCHANGED <<envVars, limiterVars, serviceVars, redis, req, current_gap_ts,
                   gap_predictions, gap_timestamps, gap_iterations,
                   cache_bound, lastOp>>

\* after the loop: reshape(7, 24) and the daily means; a list that is not
\* 168 long makes reshape raise, which ends in the static fallback
WeeklyFinish(w) ==
    /\ pc[w] = "weekly_days"
    /\ ~(current_day[w] < req[w].timestamp + WEEK_DAYS * DAY)
    /\ response' =
          [response EXCEPT ![w] =
             IF Len(all_hourly_predictions[w]) = WEEK_HOURS
             THEN WeeklyResponse("weekly_iterative", req[w].timestamp,
                                 DailyMeans(all_hourly_predictions[w]),
                                 all_hourly_predictions[w])
             ELSE StaticWeekly(req[w].timestamp)]
    /\ pc' = [pc EXCEPT ![w] = "done"]
    /\ UNCHANGED <<envVars, limiterVars, serviceVars, weeklyVars, redis, dayCache, passes,
                   req, localVars, model_failed, lastOp>>

\* ------------------------------------------- direct calls of CacheService
workerVars == <<pc, req, localVars, weeklyVars, model_failed, response, passes>>

\* the payloads a caller hands to the cache under a date
Blocks ==
    { [i \in 1..HOURS_PER_DAY |-> 500 + i],
      [i \in 1..HOURS_PER_DAY |-> 40 * i],
      [i \in 1..10 |-> 7 * i],
      [i \in 1..(HOURS_PER_DAY + 1) |-> 3 * i] }

\* the dates the direct calls are made for
PutDates == {DateOf(df.last), DateOf(df.last) + 1}

\* cache.store_hourly_predictions(date_str, predictions)
DayPut ==
    /\ \E date_str \in PutDates, predictions \in Blocks :
         /\ dayCache' = store_hourly_predictions(dayCache, date_str,
                                                 predictions)
         /\ lastOp' = [op |-> "put", date |-> date_str,
                       payload |-> predictions,
                       before |-> get_hourly_predictions(dayCache, date_str),
                       again |-> dayCache[date_str] = predictions]
    /\ UNCHANGED <<envVars, limiterVars, serviceVars, redis, workerVars>>

\* the TTL of a day block runs out
DayExpire ==
    /\ \E date_str \in PutDates :
         /\ dayCache[date_str] # << >>
         /\ dayCache' = [dayCache EXCEPT ![date_str] = << >>]
         /\ lastOp' = [op |-> "expire", date |-> date_str]
    /\ UNCHANGED <<envVars, limiterVars, serviceVars, redis, workerVars>>

\* cache.invalidate_date_range(start_date, end_date) after a data sync
invalidate_date_range(cache, start_date, end_date) ==
    [x \in DOMAIN cache |->
       IF x >= start_date /\ x <= end_date THEN << >> ELSE cache[x]]

DayInvalidate ==
    /\ \E start_date \in PutDates, end_date \in PutDates :
         /\ start_date <= end_date
         /\ \E x \in start_date..end_date : dayCache[x] # << >>
         /\ dayCache' = invalidate_date_range(dayCache, start_date, end_date)
         /\ lastOp' = [op |-> "invalidate", date |-> start_date,
                       end_date |-> end_date]
    /\ UNCHANGED <<envVars, limiterVars, serviceVars, redis, workerVars>>

\* the forecast keys the legacy predictor writes
ForecastKeys ==
    {<<"hourly_horizon", df.last + k * HALF>> : k \in {1, 2}}

\* cache.store_forecast(key, payload, ttl_seconds)
CacheStore ==
    /\ \E key \in ForecastKeys, payload \in Blocks :
         /\ redis' = store_forecast(redis_client, redis, key, payload,
                                    LEGACY_TTL)
         /\ lastOp' = [op |-> "store", key |-> key, payload |-> payload,
                       before |-> get_forecast(redis_client, redis, key)]
    /\ UNCHANGED <<envVars, limiterVars, serviceVars, dayCache, workerVars>>

\* the TTL of a forecast key runs out
CacheExpire ==
    /\ \E key \in ForecastKeys :
         /\ redis[key] # NoEntry
         /\ redis' = [redis EXCEPT ![key] = NoEntry]
         /\ lastOp' = [op |-> "expire", key |-> key]
    /\ UNCHANGED <<envVars, limiterVars, serviceVars, dayCache, workerVars>>

\* cache.invalidate_pattern('hourly_horizon:*'): every matching key goes
CacheInvalidate ==
    /\ redis_client
    /\ \E key \in ForecastKeys : redis[key] # NoEntry
    /\ redis' = [k \in DOMAIN redis |->
                   IF k[1] = "hourly_horizon" THEN NoEntry ELSE redis[k]]
    /\ lastOp' = [op |-> "invalidate_pattern"]
    /\ UNCHANGED <<envVars, limiterVars, serviceVars, dayCache, workerVars>>

\* storage.append_actuals(df) for one frame
AppendFrame(rows) ==
         LET named == {rows[i].ts : i \in 1..Len(rows)}
             out == append_actuals(hourly_actuals, rows)
         IN  /\ hourly_actuals' = out.table
             /\ appended' =
                   [ts \in (DOMAIN appended) \cup named |->
                      IF ts \in named THEN LastDemandIn(rows, ts)
                      ELSE appended[ts]]
             /\ lastOp' = [op |-> "append_actuals",
                           rows_inserted |-> out.rows_inserted,
                           existing |->
                               Cardinality(named \cap DOMAIN appended),
                           count_before |-> get_row_count(hourly_actuals)]

\* storage.append_actuals(df)
AppendActuals ==
    /\ \E rows \in Batches : AppendFrame(rows)
    /\ UNCHANGED <<envVars, limiterVars, redis, dayCache, workerVars, caller_history,
                   runs>>

QueryLengths == {1, 5, 24, SEQ_LEN}
QueryTimes == {0, 7 * HOUR, 28 * HOUR + HALF, 30 * HOUR, 41 * HOUR}

\* storage.get_last_n_hours(n, until_ts=until_ts)
GetLastNHours ==
    /\ \E n \in QueryLengths, until_ts \in QueryTimes :
         lastOp' = [op |-> "get_last_n_hours", n |-> n,
                    until_ts |-> until_ts,
                    result |-> get_last_n_hours(hourly_actuals, n, until_ts)]
    /\ UNCHANGED <<envVars, limiterVars, serviceVars, redis, dayCache, workerVars>>

\* -------------------------------------------------------- FeatureBuilder
\* feature_order.json: the names of the model's inputs, in order.  The
\* last name is one the builders do not compute (build_vector reads it
\* with features.get(name, 0.0)).
feature_order ==
    << "hour", "temperature", "humidity", "demand_lag_1", "demand_lag_24",
       "demand_roll_mean_24", "uncomputed" >>

n_features == Len(feature_order)

MIN_HISTORY == 24
DEFAULT_TEMPERATURE == 25
DEFAULT_HUMIDITY == 50

\* dict.get(key, default)
DictGet(d, key, default) == IF key \in DOMAIN d THEN d[key] ELSE default

\* weather_forecast.get(key): an Optional value, empty for Python's None
OptionalGet(d, key) == IF key \in DOMAIN d THEN {d[key]} ELSE {}

\* build_from_raw: the demand lags and rolling statistics are placeholders
build_from_raw(timestamp, temperature, humidity) ==
    [hour |-> HourOf(timestamp),
     temperature |-> temperature,
     humidity |-> IF humidity = {} THEN DEFAULT_HUMIDITY
                  ELSE CHOOSE v \in humidity : TRUE,
     demand_lag_1 |-> 0, demand_lag_24 |-> 0, demand_roll_mean_24 |-> 0]

\* np.zeros(n_features), then vector[i] = features.get(feat_name, 0.0)
build_vector(features) ==
    [i \in 1..n_features |-> DictGet(features, feature_order[i], 0)]

\* build_vector(features).reshape(1, -1): one row of n_features values
build_for_inference(timestamp, temperature, humidity) ==
    << build_vector(build_from_raw(timestamp, temperature, humidity)) >>

\* repeat the last row up to target_len, timestamps advancing by the hour
pad_history(history, target_len) ==
    IF Len(history) >= target_len THEN history
    ELSE LET last_row == history[Len(history)]
         IN  history \o
               [i \in 1..(target_len - Len(history)) |->
                  [last_row EXCEPT !.ts = last_row.ts + i * HOUR]]

\* demand_values[-lag] if lag <= len(demand_values) else the oldest value
DemandLag(history, lag) ==
    IF lag <= Len(history) THEN history[Len(history) - lag + 1].demand
    ELSE history[1].demand

\* np.mean(demand_values[-window:])
DemandRollMean(history, window) ==
    LET w == TailN(history, window)
        P == {i \in 1..Len(w) : w[i].demand > 0}
    IN  BagCardinality([i \in P |-> w[i].demand]) \div Len(w)

compute_features_from_history(timestamp, history, weather_forecast) ==
    [hour |-> HourOf(timestamp),
     temperature |->
         DictGet(weather_forecast, "temperature", DEFAULT_TEMPERATURE),
     humidity |-> DictGet(weather_forecast, "humidity", DEFAULT_HUMIDITY),
     demand_lag_1 |-> DemandLag(history, 1),
     demand_lag_24 |-> DemandLag(history, 24),
     demand_roll_mean_24 |-> DemandRollMean(history, 24)]

\* what the storage service answers: "none" is a builder constructed
\* without one, "down" a query that raises (e.g. a lost connection)
StorageStates == {"none", "ok", "down"}

StorageQuery(storage, table, n, until_ts) ==
    IF storage = "down" THEN [raised |-> TRUE, rows |-> << >>]
    ELSE get_last_n_hours(table, n, until_ts)

FallbackFeatures(timestamp, weather_forecast, data_source, history_length) ==
    [raised |-> FALSE,
     xgb_vector |->
         build_for_inference(
             timestamp,
             DictGet(weather_forecast, "temperature", DEFAULT_TEMPERATURE),
             OptionalGet(weather_forecast, "humidity")),
     metadata |-> [data_source |-> data_source,
                   history_length |-> history_length]]

\* the same function without the try/except and without the 24-hour check
build_from_db_history_unguarded(storage, table, timestamp, weather_forecast, seq_len) ==
    IF storage = "none"
    THEN FallbackFeatures(timestamp, weather_forecast, "unknown", 0)
    ELSE LET q == StorageQuery(storage, table, seq_len, timestamp)
         IN
           IF q.raised
           THEN [raised |-> TRUE, xgb_vector |-> << >>,
                 metadata |-> [data_source |-> "unknown",
                               history_length |-> 0]]
           ELSE [raised |-> FALSE,
                 xgb_vector |->
                     << build_vector(compute_features_from_history(
                            timestamp, pad_history(q.rows, seq_len),
                            weather_forecast)) >>,
                 metadata |-> [data_source |-> "database",
                               history_length |-> Len(q.rows)]]

build_from_db_history(storage, table, timestamp, weather_forecast, seq_len) ==
    IF storage = "none"
    THEN FallbackFeatures(timestamp, weather_forecast, "unknown", 0)
    ELSE LET q == StorageQuery(storage, table, seq_len, timestamp)
         IN  IF q.raised
             THEN FallbackFeatures(timestamp, weather_forecast,
                                   "error_fallback", 0)
             ELSE IF Len(q.rows) < MIN_HISTORY
             THEN FallbackFeatures(timestamp, weather_forecast,
                                   "fallback", Len(q.rows))
             ELSE [raised |-> FALSE,
                   xgb_vector |->
                       << build_vector(compute_features_from_history(
                              timestamp, pad_history(q.rows, seq_len),
                              weather_forecast)) >>,
                   metadata |-> [data_source |-> "database",
                                 history_length |-> Len(q.rows)]]

WeatherForecasts ==
    { [k \in {"temperature"} |-> 30],
      [k \in {"temperature", "humidity"} |-> IF k = "humidity" THEN 70 ELSE 30] }

\* feature_builder.build_from_db_history(timestamp, weather_forecast)
BuildFromDbHistory ==
    /\ \E storage \in StorageStates, timestamp \in QueryTimes,
          weather_forecast \in WeatherForecasts :
         lastOp' = [op |-> "build_from_db_history",
                    storage |-> storage,
                    timestamp |-> timestamp,
                    result |-> build_from_db_history(
                                   storage, hourly_actuals, timestamp,
                                   weather_forecast, SEQ_LEN)]
    /\ UNCHANGED <<envVars, limiterVars, serviceVars, redis, dayCache, workerVars>>

\* build_feature_row as a call: hist_sorted['load'].iloc[-1] raises
\* IndexError on an empty frame when no row holds the hour before
build_feature_row_call(timestamp, history, weather) ==
    IF FirstAt(history, timestamp - HOUR) = 0 /\ Len(history) = 0
    THEN [raised |-> TRUE, error |-> "IndexError", features |-> << >>]
    ELSE [raised |-> FALSE, error |-> "",
          features |-> build_feature_row(timestamp, history, weather)]

\* hours of history handed to build_feature_row
HistoryLengths == {0, 1, 23, 24, 100, 167, SEQ_LEN}

\* build_feature_row(timestamp, history_df, weather, feature_order) for the
\* hour after the history's last
BuildFeatureRow ==
    /\ \E n \in HistoryLengths :
         LET history == TailN(caller_history, n)
             timestamp == df.last + HOUR
         IN  lastOp' = [op |-> "build_feature_row",
                        history_length |-> Len(history),
                        result |-> build_feature_row_call(
                                       timestamp, history,
                                       Weather(timestamp))]
    /\ UNCHANGED <<envVars, limiterVars, serviceVars, redis, dayCache, workerVars>>

\* ------------------------------------- HybridPredictor with stored history
\* xgb_model.predict(xgb_vector): the baseline read from the feature vector
\* (equal to XgbPredict when the demand lag is the placeholder 0)
XgbPredictVector(xgbm, vector) ==
    xgbm.bias + 10 * vector[1] - vector[2] + vector[4]

\* weather_forecasts of predict_horizon: fetched per hour when temperature
\* is not supplied, else the supplied value for every hour
HorizonWeather(timestamp, i, temperature) ==
    IF temperature = {}
    THEN [k \in {"temperature", "humidity"} |->
            IF k = "temperature"
            THEN Weather(timestamp + i * HOUR).temperature ELSE 60]
    ELSE [k \in {"temperature", "humidity"} |->
            IF k = "temperature"
            THEN CHOOSE v \in temperature : TRUE ELSE 60]

\* "Get historical data ONCE": None when the query raises or returns
\* fewer than 24 rows
HistoryOnce(table, timestamp) ==
    LET q == get_last_n_hours(table, SEQ_LEN, timestamp)
    IN  IF q.raised \/ Len(q.rows) < MIN_HISTORY
        THEN [isNone |-> TRUE, rows |-> << >>]
        ELSE [isNone |-> FALSE, rows |-> q.rows]

\* "'demand': [baseline_values[-1]]": the row fed back for an hour without
\* a stored actual carries the XGBoost baseline of that hour
FeedBack(baseline_value, residual) == baseline_value

\* new_row for hour i-1 at step i > 0: the stored actual when the latest
\* row before hour i is the row of hour i-1, else the fed-back row
NewRow(table, timestamp, i, baseline_value, residual) ==
    LET actual_data == get_last_n_hours(table, 1, timestamp + i * HOUR)
        prev_ts == timestamp + (i - 1) * HOUR
    IN  IF ~actual_data.raised /\ actual_data.rows[1].ts = prev_ts
        THEN [ts |-> prev_ts, demand |-> actual_data.rows[1].demand,
              actual |-> TRUE]
        ELSE [ts |-> prev_ts, demand |-> FeedBack(baseline_value, residual),
              actual |-> FALSE]

\* "for i in range(horizon)" of predict_horizon
RECURSIVE HorizonLoop(_, _, _, _, _, _, _, _, _)
HorizonLoop(i, horizon, timestamp, temperature, history, table, xgbm, t, acc) ==
    IF i >= horizon THEN acc
    ELSE
      LET new_row ==
              NewRow(table, timestamp, i,
                     acc.baselines[Len(acc.baselines)],
                     acc.residuals[Len(acc.residuals)])
          shifted ==
              IF i > 0 /\ ~history.isNone
              THEN [history EXCEPT
                      !.rows = Tail(@) \o << [ts |-> new_row.ts,
                                              demand |-> new_row.demand] >>]
              ELSE history
          hour_weather == HorizonWeather(timestamp, i, temperature)
          xgb_vector ==
              IF shifted.isNone
              THEN build_for_inference(timestamp + i * HOUR,
                                       hour_weather["temperature"],
                                       {hour_weather["humidity"]})[1]
              ELSE build_vector(compute_features_from_history(
                       timestamp + i * HOUR, shifted.rows, hour_weather))
          baseline_value == XgbPredictVector(xgbm, xgb_vector)
          residual == LegacyResidual(t)
      IN  HorizonLoop(i + 1, horizon, timestamp, temperature, shifted, table,
                      xgbm, t,
                      [baselines |-> Append(acc.baselines, baseline_value),
                       residuals |-> Append(acc.residuals, residual),
                       fed_back |->
                           IF i > 0 /\ ~history.isNone
                           THEN Append(acc.fed_back, new_row)
                           ELSE acc.fed_back])

\* HybridPredictor.predict_horizon without its forecast cache: baselines,
\* residuals, hybrid values and intervals, and the rows fed to the history
predict_horizon_fresh(xgbm, t, table, timestamp, temperature, horizon) ==
    LET out == HorizonLoop(0, horizon, timestamp, temperature,
                           HistoryOnce(table, timestamp), table, xgbm, t,
                           [baselines |-> << >>, residuals |-> << >>,
                            fed_back |-> << >>])
        hybrid == [i \in 1..horizon |->
                     FloorAtZero(out.baselines[i] + out.residuals[i])]
    IN  [timestamp |-> timestamp,
         horizon |-> horizon,
         predictions |-> hybrid,
         baselines |-> out.baselines,
         residuals |-> out.residuals,
         confidence_intervals |->
             [i \in 1..horizon |->
                [lower |-> Max(0, hybrid[i] - LEGACY_CI_MARGIN),
                 upper |-> hybrid[i] + LEGACY_CI_MARGIN,
                 margin |-> LEGACY_CI_MARGIN]],
         fed_back |-> out.fed_back]

\* ------------------------------- the legacy predictor over stored history
\* the seeding script writes the stored hours, again on an overwrite
SyncHistory ==
    /\ \E rows \in HistoryFrames : AppendFrame(rows)
    /\ UNCHANGED <<envVars, limiterVars, redis, dayCache, workerVars, caller_history,
                   runs>>

\* cache_key of predict / predict_horizon: None without a cache-relevant
\* history (the query raised) or with use_cache off
ForecastCacheKey(forecast_type, table, timestamp) ==
    IF get_last_n_hours(table, SEQ_LEN, timestamp).raised THEN << >>
    ELSE build_forecast_key(forecast_type, timestamp,
                            HistoryHash(table, timestamp))

\* what the cache holds for a forecast: its numbers, hour after hour
ForecastPayload(result) ==
    result.predictions \o result.baselines \o result.residuals

\* the response rebuilt from a cached payload
FromPayload(timestamp, value) ==
    LET n == Len(value) \div 3
        predictions == SubSeq(value, 1, n)
    IN  [timestamp |-> timestamp,
         horizon |-> n,
         predictions |-> predictions,
         baselines |-> SubSeq(value, n + 1, 2 * n),
         residuals |-> SubSeq(value, 2 * n + 1, 3 * n),
         confidence_intervals |->
             [i \in 1..n |->
                [lower |-> Max(0, predictions[i] - LEGACY_CI_MARGIN),
                 upper |-> predictions[i] + LEGACY_CI_MARGIN,
                 margin |-> LEGACY_CI_MARGIN]]]

\* what the caller sees of a fresh result
Returned(fresh) ==
    [timestamp |-> fresh.timestamp,
     horizon |-> fresh.horizon,
     predictions |-> fresh.predictions,
     baselines |-> fresh.baselines,
     residuals |-> fresh.residuals,
     confidence_intervals |-> fresh.confidence_intervals]

\* HybridPredictor.predict without its forecast cache
predict_fresh(xgbm, t, table, timestamp, temperature) ==
    LET built == build_from_db_history(
                     "ok", table, timestamp,
                     HorizonWeather(timestamp, 0, temperature), SEQ_LEN)
        baseline_value == XgbPredictVector(xgbm, built.xgb_vector[1])
        residual_value == LegacyResidual(t)
        hybrid_value == FloorAtZero(baseline_value + residual_value)
    IN  [timestamp |-> timestamp,
         horizon |-> 1,
         predictions |-> <<hybrid_value>>,
         baselines |-> <<baseline_value>>,
         residuals |-> <<residual_value>>,
         confidence_intervals |->
             << [lower |-> Max(0, hybrid_value - LEGACY_CI_MARGIN),
                 upper |-> hybrid_value + LEGACY_CI_MARGIN,
                 margin |-> LEGACY_CI_MARGIN] >>,
         fed_back |-> << >>]

\* supplied temperature: None (the weather service is asked) or a value
Temperatures == {{}, {10}}

ForecastHorizons == {2, 3}

\* the cache check, the computation and the store of predict_horizon
\* (forecast_type "hourly_horizon") and predict (forecast_type "hourly")
ServeForecast(forecast_type, timestamp, temperature, horizon, fresh) ==
    LET cache_key == ForecastCacheKey(forecast_type, hourly_actuals, timestamp)
        cached == IF cache_key = << >> THEN CacheMiss
                  ELSE get_forecast(redis_client, redis, cache_key)
    IN  IF cached.hit
        THEN /\ lastOp' = [op |-> forecast_type,
                           timestamp |-> timestamp,
                           temperature |-> temperature,
                           horizon |-> horizon,
                           raised |-> FALSE,
                           cache_hit |-> TRUE,
                           result |-> FromPayload(timestamp, cached.value),
                           fresh |-> fresh]
             /\ UNCHANGED redis
        ELSE IF xgb = None
        THEN /\ lastOp' = [op |-> forecast_type,
                           timestamp |-> timestamp,
                           temperature |-> temperature,
                           horizon |-> horizon,
                           raised |-> TRUE,
                           cache_hit |-> FALSE]
             /\ UNCHANGED redis
        ELSE /\ lastOp' = [op |-> forecast_type,
                           timestamp |-> timestamp,
                           temperature |-> temperature,
                           horizon |-> horizon,
                           raised |-> FALSE,
                           cache_hit |-> FALSE,
                           result |-> Returned(fresh),
                           fresh |-> fresh]
             /\ redis' = IF cache_key = << >> THEN redis
                         ELSE store_forecast(redis_client, redis, cache_key,
                                             ForecastPayload(fresh),
                                             LEGACY_TTL)

\* predictor.predict_horizon(timestamp, temperature=..., horizon=...)
PredictHorizonDb ==
    /\ \E temperature \in Temperatures, horizon \in ForecastHorizons :
       \E fresh \in
            {IF xgb = None THEN [horizon |-> 0]
             ELSE predict_horizon_fresh(xgb, transformer, hourly_actuals,
                                        ForecastStart, temperature,
                                        horizon)} :
         ServeForecast("hourly_horizon", ForecastStart, temperature, horizon,
                       fresh)
    /\ UNCHANGED <<envVars, limiterVars, serviceVars, dayCache, workerVars>>

\* predictor.predict(timestamp, temperature=...)
PredictDb ==
    /\ \E temperature \in Temperatures :
       \E fresh \in
            {IF xgb = None THEN [horizon |-> 0]
             ELSE predict_fresh(xgb, transformer, hourly_actuals,
                                ForecastStart, temperature)} :
         ServeForecast("hourly", ForecastStart, temperature, 1, fresh)
    /\ UNCHANGED <<envVars, limiterVars, serviceVars, dayCache, workerVars>>

\* ------------------------------------------- runs of the iterative predictor
\* the frame predict_future_iterative worked on when it returned: the
\* history it was given followed by one row per predicted hour
WorkingHistoryAfter(history, result) ==
    history \o [i \in 1..Len(result.predictions) |->
                  [timestamp |-> ToDatetime(result.timestamps[i]),
                   load |-> result.predictions[i]]]

\* the rows are appended to the caller's frame itself
history_shared_with_run(history, result) ==
    WorkingHistoryAfter(history, result)

\* "working_history = history_df.copy()": the caller's frame is as it was
history_after_run(history, result) == history

RunHorizons == {1, 2, 3}

\* predict_future_iterative(start, horizon, history_df, ...) on the last n
\* rows of the frame the caller holds, for the hour after the last recorded
\* one
RunOnHistory(horizon, n) ==
    LET start_timestamp == df.last + HOUR
        result == predict_future_iterative(start_timestamp, horizon,
                                           TailN(caller_history, n),
                                           lgbm, transformer, 0)
    IN  /\ runs' = [prev |-> runs.last,
                    last |-> [horizon |-> horizon,
                              start_timestamp |-> start_timestamp,
                              history_length |-> n,
                              result |-> result]]
        /\ caller_history' = history_after_run(caller_history, result)

\* a run on the 168 hours before the start
RunIterative ==
    /\ \E horizon \in RunHorizons : RunOnHistory(horizon, SEQ_LEN)
    /\ UNCHANGED <<envVars, limiterVars, hourly_actuals, appended, redis, dayCache,
                   workerVars, lastOp>>

\* the rows a dataset one or two hours short of a week has before the start
ShortHistoryLengths == {SEQ_LEN - 1, SEQ_LEN - 2}

\* a run on fewer than 168 hours
RunShortHistory ==
    /\ \E horizon \in RunHorizons, n \in ShortHistoryLengths :
         RunOnHistory(horizon, n)
    /\ UNCHANGED <<envVars, limiterVars, hourly_actuals, appended, redis, dayCache,
                   workerVars, lastOp>>

\* -------------------------------------------------------- rate limiting
\* a request of client_ip reaches check_rate_limit
CheckRateLimit ==
    /\ \E client_ip \in ClientIps :
         /\ client_ip = "10.0.0.2"
               => Len(rate_limit_store[client_ip]) < MaxOtherRequests
         /\ \E out \in {check_rate_limit(rate_limit_store, client_ip, clock)} :
              /\ rate_limit_store' = out.store
              /\ lastOp' = [op |-> "check_rate_limit",
                            client_ip |-> client_ip,
                            current_time |-> clock,
                            recorded_before |->
                                Len(rate_limit_store[client_ip]),
                            status |-> out.status]
    /\ UNCHANGED <<envVars, serviceVars, redis, dayCache, workerVars, clock>>

\* time passes
Tick ==
    /\ \E later \in ClockTimes :
         /\ later > clock
         /\ clock' = later
    /\ UNCHANGED <<envVars, serviceVars, redis, dayCache, workerVars,
                   rate_limit_store, lastOp>>

\* ------------------------------------------------------------ specifications
Serve(w) ==
    \/ StartFuture(w)
    \/ GapCached(w)
    \/ GapMiss(w)
    \/ GapPredict(w)
    \/ GapExit(w)
    \/ FinalUnbound(w)
    \/ FinalCached(w)
    \/ FinalMiss(w)
    \/ FinalPredict(w)
    \/ HistoricalInsufficient(w)
    \/ HistoricalReplay(w)
    \/ HistoricalReplayError(w)
    \/ FallbackFails(w)
    \/ FallbackLegacy(w)
    \/ PredictSingle(w)
    \/ WeeklyHistorical(w)
    \/ WeeklyFutureStart(w)
    \/ WeeklyDayCached(w)
    \/ WeeklyDayPredict(w)
    \/ WeeklyFinish(w)

Next == \E w \in Workers : Serve(w)

Spec == Init /\ [][Next]_vars

\* the future branch and the fallback, in every worker process
ServeFuture(w) ==
    \/ StartFuture(w)
    \/ GapCached(w)
    \/ GapMiss(w)
    \/ GapPredict(w)
    \/ GapExit(w)
    \/ FinalUnbound(w)
    \/ FinalCached(w)
    \/ FinalMiss(w)
    \/ FinalPredict(w)
    \/ FallbackFails(w)
    \/ FallbackLegacy(w)

NextConcurrent == \E w \in Workers : ServeFuture(w)

SpecConcurrent == InitConcurrent /\ [][NextConcurrent]_vars

NextCache ==
    \/ DayPut
    \/ DayExpire
    \/ DayInvalidate
    \/ CacheStore
    \/ CacheExpire
    \/ CacheInvalidate

SpecCache == Init /\ [][NextCache]_vars

\* direct calls of the storage service, the feature builders and the
\* iterative predictor
InitServices ==
    \E env \in Environments :
        /\ InitCommon(env, {})
        /\ clients = [w \in Workers |-> {}]

NextServices ==
    \/ AppendActuals
    \/ GetLastNHours
    \/ BuildFromDbHistory
    \/ BuildFeatureRow

SpecServices == InitServices /\ [][NextServices]_vars

\* runs of the iterative predictor on one caller's history, over every
\* seeding of the day cache and while its blocks expire
NextIterative ==
    \/ RunIterative
    \/ DayExpire

SpecIterative == Init /\ [][NextIterative]_vars

\* runs on a full week of history and on less
NextShortHistory ==
    \/ RunIterative
    \/ RunShortHistory

SpecShortHistory == InitServices /\ [][NextShortHistory]_vars

\* requests of two addresses reaching the limiter while time passes
NextRateLimit ==
    \/ CheckRateLimit
    \/ Tick

SpecRateLimit == InitServices /\ [][NextRateLimit]_vars

\* the legacy predictor asked again and again over a store that the
\* seeding rewrites
NextForecast ==
    \/ SyncHistory
    \/ PredictHorizonDb
    \/ PredictDb

SpecForecast == InitServices /\ [][NextForecast]_vars

\* ------------------------------------------------------------------ claims
\* C1: after the gap-filling phase, for a request whose start lies G whole
\* hours after last_available + 1h, the rolling history handed to the final
\* forecast ends with the last recorded row followed by exactly the G
\* hourly entries last_available+1h .. start-1h: strictly increasing, none
\* duplicated, none missing, none at or after start
C1_GapFillContiguity ==
    \A w \in Workers :
      (/\ pc[w] = "final_lookup"
       /\ cache_bound[w]
       /\ (req[w].timestamp - df.last) % HOUR = 0)
      => LET G == HoursBetween(req[w].timestamp, df.last + HOUR)
             tail == TailN(history_df[w], G + 1)
         IN  /\ Len(tail) = G + 1
             /\ \A i \in 1..(G + 1) :
                   tail[i].timestamp = df.last + (i - 1) * HOUR

\* C2: when no model call fails, at most one 24-hour pass is executed for
\* a date, however many requests need that date at the same time
C2_SingleFlight ==
    (\A w \in Workers : ~model_failed[w])
      => \A d \in DOMAIN passes : passes[d] <= 1

\* C3: every value of the predictions list of every answer (iterative,
\* cached day, dataset replay, legacy horizon, single prediction, weekly
\* replay) is >= 0, whatever the models return
C3_NonNegative ==
    \A w \in Workers :
      response[w].status = 200
        => /\ \A i \in 1..Len(response[w].predictions) :
                response[w].predictions[i] >= 0
           /\ response[w].path = "weekly_replay"
                => \A i \in 1..Len(response[w].hourly_predictions) :
                     response[w].hourly_predictions[i] >= 0

\* an iterative answer holds an hour whose baseline was negative and whose
\* prediction is 0
C3_Witness ==
    \E w \in Workers :
      /\ response[w].status = 200
      /\ response[w].path = "iterative"
      /\ \E i \in 1..Len(response[w].predictions) :
            /\ response[w].baselines[i] < 0
            /\ response[w].predictions[i] = 0

\* C4: after an attempt to store a block whose length is not 24 under a
\* date, the lookup of that date returns what it returned before the attempt
C4_PartialStoreRejected ==
    (lastOp.op = "put" /\ Len(lastOp.payload) # HOURS_PER_DAY)
      => get_hourly_predictions(dayCache, lastOp.date) = lastOp.before

\* a block of 10 values was offered for a date that holds a 24-value block
C4_Witness ==
    /\ lastOp.op = "put"
    /\ Len(lastOp.payload) = 10
    /\ Len(lastOp.before) = HOURS_PER_DAY
    /\ get_hourly_predictions(dayCache, lastOp.date) = lastOp.before

\* C5: right after a 24-value block B is stored under date d the lookup of
\* d returns exactly B, and storing B under d once more leaves the cache
\* as it is
C5_PutGet ==
    (lastOp.op = "put" /\ Len(lastOp.payload) = HOURS_PER_DAY)
      => /\ get_hourly_predictions(dayCache, lastOp.date) = lastOp.payload
         /\ store_hourly_predictions(dayCache, lastOp.date, lastOp.payload)
               = dayCache

\* the block stored last was stored under that date before, and is returned
C5_Witness ==
    /\ lastOp.op = "put"
    /\ Len(lastOp.payload) = HOURS_PER_DAY
    /\ lastOp.again
    /\ get_hourly_predictions(dayCache, lastOp.date) = lastOp.payload

\* C6: an answer of the horizon endpoint by dataset replay, cached day
\* block or iterative forecast lists exactly H predictions, baselines,
\* residuals and confidence intervals, and its field horizon is H
C6_ExactlyH ==
    \A w \in Workers :
      (/\ pc[w] = "done"
       /\ req[w].endpoint = "horizon"
       /\ response[w].status = 200
       /\ response[w].path \in {"replay", "cached_day", "iterative"})
      => /\ Len(response[w].predictions) = req[w].horizon
         /\ Len(response[w].baselines) = req[w].horizon
         /\ Len(response[w].residuals) = req[w].horizon
         /\ Len(response[w].confidence_intervals) = req[w].horizon
         /\ response[w].horizon = req[w].horizon

\* C7: the horizon endpoint answers by dataset replay from exactly the
\* requested timestamp if and only if the timestamp has a recorded row, at
\* least 168 recorded hours precede it and it is not later than
\* last_available - (H - 1) hours
C7_ReplayIff ==
    \A w \in Workers :
      (pc[w] = "done" /\ req[w].endpoint = "horizon")
      => ((/\ response[w].path = "replay"
           /\ response[w].timestamp = req[w].timestamp)
          <=> (/\ DfHas(df, req[w].timestamp)
               /\ DfIdx(df, req[w].timestamp) >= SEQ_LEN
               /\ req[w].timestamp
                     <= df.last - (req[w].horizon - 1) * HOUR))

\* C8: a request of the horizon endpoint whose start is after the last
\* recorded hour, by any amount, is answered by the gap-fill and iterative
\* path (fresh or from the cached day) whenever no model call failed
C8_FutureIterativeOnly ==
    \A w \in Workers :
      (/\ pc[w] = "done"
       /\ req[w].endpoint = "horizon"
       /\ req[w].timestamp > df.last
       /\ ~model_failed[w])
      => response[w].path \in {"iterative", "cached_day"}

\* C9: an answer of the horizon endpoint computed from a start other than
\* the requested one says so in its metadata
C9_SnapFlagged ==
    \A w \in Workers :
      (/\ pc[w] = "done"
       /\ req[w].endpoint = "horizon"
       /\ response[w].status = 200
       /\ response[w].timestamp # req[w].timestamp)
      => "start_adjusted" \in DOMAIN response[w].metadata

\* C10: a call predict_future_iterative(T, H) raises and returns nothing,
\* or returns lists of exactly H entries with timestamps T, T+1h, ...,
\* T+(H-1)h; a step in which a model call fails stores no day block
C10_Result ==
    \A w \in Workers :
      iterative_call[w] # NoCall
        => LET call == iterative_call[w]
               result == call.result
           IN  IF result.raised
               THEN /\ result.timestamps = << >>
                    /\ result.predictions = << >>
                    /\ result.baselines = << >>
                    /\ result.residuals = << >>
               ELSE /\ result.timestamps =
                         [i \in 1..call.horizon |->
                            IsoFormat(call.start_timestamp + (i - 1) * HOUR)]
                    /\ Len(result.predictions) = call.horizon
                    /\ Len(result.baselines) = call.horizon
                    /\ Len(result.residuals) = call.horizon

C10_NoStore ==
    \A w \in Workers :
      (model_failed'[w] /\ ~model_failed[w]) => dayCache' = dayCache

C10_AllOrNothing == [](C10_Result) /\ [][C10_NoStore]_vars

\* a 24-hour pass failed at its third step: nothing was returned and the
\* date of the pass has no block
C10_Witness ==
    \E w \in Workers :
      /\ model_failed[w]
      /\ iterative_call[w] # NoCall
      /\ iterative_call[w].horizon = HOURS_PER_DAY
      /\ iterative_call[w].result.raised
      /\ iterative_call[w].result.predictions = << >>
      /\ dayCache[DateOf(iterative_call[w].start_timestamp)] = << >>

\* C11: every pass of the gap loop advances the gap cursor by at least one
\* hour, for every start after the last recorded hour (hour-aligned or not)
\* and every pattern of cached days: after k passes the cursor is at least
\* k hours past the first gap hour, so the loop cannot run without progress
C11_GapLoopProgress ==
    \A w \in Workers :
      cache_bound[w]
        => current_gap_ts[w] >= df.last + HOUR + gap_iterations[w] * HOUR

\* C12: a request of the horizon endpoint for a recorded start (not after
\* the last recorded hour) whose prediction start has fewer than 168
\* recorded hours strictly before it is aborted with an error: no path
\* answers it with predictions
C12_InsufficientHistoryAborts ==
    \A w \in Workers :
      (/\ pc[w] = "done"
       /\ req[w].endpoint = "horizon"
       /\ ~(req[w].timestamp > df.last)
       /\ DfIdx(df, PredictionStart(df, req[w].timestamp)) < SEQ_LEN)
      => response[w].status # 200

\* C13: a request of the horizon endpoint during which a call of the
\* baseline model raised ends in an error: no answer with forecast values,
\* from another predictor or otherwise, is returned for it
C13_BaselineFailureFatal ==
    \A w \in Workers :
      (pc[w] = "done" /\ model_failed[w]) => response[w].status # 200

\* C14: with the residual corrector absent, an answer computed by the
\* iterative forecast, the dataset replay or the legacy predictor has
\* correction 0 and prediction max(0, baseline) at every hour, and its
\* metadata flags the result as degraded
C14_DegradedFlagged ==
    \A w \in Workers :
      (/\ pc[w] = "done"
       /\ req[w].endpoint = "horizon"
       /\ response[w].status = 200
       /\ response[w].path \in {"iterative", "replay", "legacy"}
       /\ transformer = None)
      => /\ \A i \in 1..Len(response[w].predictions) :
               /\ response[w].residuals[i] = 0
               /\ response[w].predictions[i] = Max(0, response[w].baselines[i])
         /\ "degraded" \in DOMAIN response[w].metadata

\* stored rows strictly before the timestamp of the last builder call
RowsBeforeCall ==
    Cardinality({r \in BagToSet(hourly_actuals) : r.ts < lastOp.timestamp})

\* C15: feature reconstruction raises whenever its history holds fewer
\* than 24 hours and returns without raising for 24 to 167 hours, both in
\* build_feature_row and in build_from_db_history over a working store
C15_InsufficientHistoryRaises ==
    /\ lastOp.op = "build_feature_row"
          => /\ lastOp.history_length < MIN_HISTORY => lastOp.result.raised
             /\ lastOp.history_length \in MIN_HISTORY..(SEQ_LEN - 1)
                   => ~lastOp.result.raised
    /\ (lastOp.op = "build_from_db_history" /\ lastOp.storage = "ok")
          => /\ RowsBeforeCall < MIN_HISTORY => lastOp.result.raised
             /\ RowsBeforeCall \in MIN_HISTORY..(SEQ_LEN - 1)
                   => ~lastOp.result.raised

\* C16: build_from_db_history over a store never raises and returns one
\* row of n_features values; with fewer than 24 stored rows before the
\* timestamp (none included) data_source is 'fallback' or 'error_fallback'
\* and the demand features are the placeholders; data_source is
\* 'database' only when at least 24 stored rows precede the timestamp
C16_FallbackNeverRaises ==
    (lastOp.op = "build_from_db_history" /\ lastOp.storage # "none")
      => /\ ~lastOp.result.raised
         /\ Len(lastOp.result.xgb_vector) = 1
         /\ Len(lastOp.result.xgb_vector[1]) = n_features
         /\ RowsBeforeCall < MIN_HISTORY
               => /\ lastOp.result.metadata.data_source
                        \in {"fallback", "error_fallback"}
                  /\ \A i \in 1..n_features :
                        feature_order[i] \in {"demand_lag_1", "demand_lag_24",
                                              "demand_roll_mean_24"}
                          => lastOp.result.xgb_vector[1][i] = 0
         /\ lastOp.result.metadata.data_source = "database"
               => RowsBeforeCall >= MIN_HISTORY

\* seven stored hours precede the timestamp: the builder fell back
C16_Witness ==
    /\ lastOp.op = "build_from_db_history"
    /\ lastOp.storage = "ok"
    /\ RowsBeforeCall = 7
    /\ lastOp.result.metadata.data_source = "fallback"
    /\ lastOp.result.metadata.history_length = 7

\* the store holds rows, none of them before the timestamp
C16_WitnessNoRows ==
    /\ lastOp.op = "build_from_db_history"
    /\ lastOp.storage = "ok"
    /\ get_row_count(hourly_actuals) > 0
    /\ RowsBeforeCall = 0
    /\ lastOp.result.metadata.data_source = "error_fallback"

\* at least 24 stored hours precede the timestamp: real lags were used
C16_WitnessDatabase ==
    /\ lastOp.op = "build_from_db_history"
    /\ lastOp.result.metadata.data_source = "database"
    /\ lastOp.result.metadata.history_length \in MIN_HISTORY..(SEQ_LEN - 1)
    /\ lastOp.result.xgb_vector[1][4] > 0

C18_MarginMonotonic ==
    \A w \in Workers :
      (/\ pc[w] = "done"
       /\ response[w].status = 200
       /\ "confidence_intervals" \in DOMAIN response[w])
      => LET ci == response[w].confidence_intervals
         IN  /\ Len(ci) = Len(response[w].predictions)
             /\ \A i \in 1..(Len(ci) - 1) : ci[i].margin <= ci[i + 1].margin
             /\ \A i \in 1..Len(ci) :
                   /\ 0 <= ci[i].lower
                   /\ ci[i].lower < ci[i].upper

\* a fresh iterative forecast of at least twelve hours was answered
C18_Witness ==
    \E w \in Workers :
      /\ pc[w] = "done"
      /\ response[w].status = 200
      /\ response[w].path = "iterative"
      /\ Len(response[w].confidence_intervals) >= 12

\* the legacy predictor answered a horizon with its own margin
C18_WitnessLegacy ==
    \E w \in Workers :
      /\ pc[w] = "done"
      /\ response[w].status = 200
      /\ response[w].path = "legacy"
      /\ Len(response[w].confidence_intervals) >= 12

C19_WitnessLimit ==
    /\ lastOp.op = "get_last_n_hours"
    /\ lastOp.n = 5
    /\ Len(lastOp.result.rows) = 5
    /\ Cardinality({r \in BagToSet(hourly_actuals) :
                      r.ts < lastOp.until_ts}) > 5

\* C20: after any sequence of append_actuals calls the table holds exactly
\* one row for each timestamp ever appended, with the demand of the latest
\* row appended for it, and no other row
C20_UpsertOneRowPerTimestamp ==
    /\ \A ts \in DOMAIN appended :
          /\ Cardinality(RowsAt(hourly_actuals, ts)) = 1
          /\ \A r \in RowsAt(hourly_actuals, ts) :
                /\ hourly_actuals[r] = 1
                /\ r.demand = appended[ts]
    /\ get_row_count(hourly_actuals) = Cardinality(DOMAIN appended)

\* a frame was appended that names timestamps the table already held
C20_Witness ==
    /\ lastOp.op = "append_actuals"
    /\ lastOp.existing > 0
    /\ lastOp.rows_inserted > 1
    /\ get_row_count(hourly_actuals)
          = lastOp.count_before + lastOp.rows_inserted - lastOp.existing

\* C21: whenever predict_future_iterative is invoked with start S, the
\* history passed to it is hourly-contiguous (hence free of duplicate
\* timestamps) and its last entry is the hour S - 1h
C21_HistoryEndsBeforeStart ==
    \A w \in Workers :
      iterative_call[w] # NoCall
        => LET h == iterative_call[w].history
               S == iterative_call[w].start_timestamp
           IN  /\ Len(h) > 0
               /\ h[Len(h)].timestamp = S - HOUR
               /\ \A i \in 1..(Len(h) - 1) :
                     h[i + 1].timestamp = h[i].timestamp + HOUR

\* C22: every block written to the day cache under date d holds exactly 24
\* values, the predictions of a 24-hour run that started at 00:00 of d, in
\* order of the hours 00:00 .. 23:00 of d
C22_BlocksAreAlignedDays ==
    [][\A d \in DOMAIN dayCache :
         (dayCache'[d] # dayCache[d] /\ dayCache'[d] # << >>)
           => \E w \in Workers :
                /\ iterative_call'[w] # NoCall
                /\ iterative_call'[w].horizon = HOURS_PER_DAY
                /\ iterative_call'[w].start_timestamp = d * DAY
                /\ dayCache'[d] = iterative_call'[w].result.predictions
                /\ Len(dayCache'[d]) = HOURS_PER_DAY
                /\ \A i \in 1..Len(dayCache'[d]) :
                      ToDatetime(iterative_call'[w].result.timestamps[i])
                        = d * DAY + (i - 1) * HOUR]_vars

\* a 24-hour forecast from midnight was answered and its block is cached
\* under its date
C22_Witness ==
    \E w \in Workers :
      /\ pc[w] = "done"
      /\ req[w].endpoint = "horizon"
      /\ response[w].status = 200
      /\ response[w].path = "iterative"
      /\ req[w].horizon = HOURS_PER_DAY
      /\ HourOf(req[w].timestamp) = 0
      /\ dayCache[DateOf(req[w].timestamp)] = response[w].predictions

\* a forecast that starts at a later hour of the day was answered and
\* nothing is cached under its date
C22_WitnessRemainder ==
    \E w \in Workers :
      /\ pc[w] = "done"
      /\ req[w].endpoint = "horizon"
      /\ response[w].status = 200
      /\ response[w].path = "iterative"
      /\ HourOf(req[w].timestamp) # 0
      /\ dayCache[DateOf(req[w].timestamp)] = << >>

\* a weekly forecast beyond the recorded data cached a day it predicted
C22_WitnessWeekly ==
    \E w \in Workers :
      /\ pc[w] = "done"
      /\ response[w].status = 200
      /\ response[w].path = "weekly_iterative"
      /\ \E d \in WeekDates(df) :
            passes[d] > 0 /\ Len(dayCache[d]) = HOURS_PER_DAY

\* C23: every row HybridPredictor.predict_horizon feeds back into its
\* history for an hour without a stored actual carries the prediction it
\* returns for that hour, max(0, baseline + correction)
C23_FedBackIsPrediction ==
    (/\ lastOp.op = "hourly_horizon"
     /\ ~lastOp.raised)
      => \A k \in 1..Len(lastOp.fresh.fed_back) :
           LET row == lastOp.fresh.fed_back[k]
               i == ((row.ts - lastOp.timestamp) \div HOUR) + 1
           IN  ~row.actual => row.demand = lastOp.fresh.predictions[i]

C24_HistoryBounded ==
    runs.last.horizon > 0
      => \A k \in 1..Len(runs.last.result.history_sizes) :
           runs.last.result.history_sizes[k] <= SEQ_LEN

\* C25: with the corrector loaded, every step of a run leaves the residual
\* buffer one entry longer than it found it, up to 168 entries: a buffer
\* that starts with n entries has min(168, n + k) after step k
C25_BufferGrows ==
    (/\ runs.last.horizon > 0
     /\ transformer # None)
      => \A k \in 1..Len(runs.last.result.sequence_sizes) :
           runs.last.result.sequence_sizes[k]
             = Min(SEQ_LEN, runs.last.history_length + k)

\* C26: an answer of the horizon endpoint whose hours are taken from a
\* cached day block has correction 0 at every hour and metadata that flag
\* the hours as resumed from the cache
C26_CacheHoursFlagged ==
    \A w \in Workers :
      (/\ pc[w] = "done"
       /\ req[w].endpoint = "horizon"
       /\ response[w].status = 200
       /\ response[w].path = "cached_day")
      => /\ \A i \in 1..Len(response[w].residuals) :
               response[w].residuals[i] = 0
         /\ "resumed_from_cache" \in DOMAIN response[w].metadata

\* the load of the row of h whose timestamp is closest to ts (the earlier
\* row of two equally close ones)
NearestLoad(h, ts) ==
    LET Dist(i) == IF h[i].timestamp >= ts THEN h[i].timestamp - ts
                   ELSE ts - h[i].timestamp
        best == CHOOSE i \in 1..Len(h) :
                   \A j \in 1..Len(h) :
                      \/ Dist(i) < Dist(j)
                      \/ (Dist(i) = Dist(j) /\ i <= j)
    IN  h[best].load

\* the value the lag feature of offset hours before timestamp has to take
ExpectedLag(h, timestamp, offset) ==
    IF FirstAt(h, timestamp - offset * HOUR) # 0
    THEN h[FirstAt(h, timestamp - offset * HOUR)].load
    ELSE NearestLoad(h, timestamp - offset * HOUR)

\* C27: in a feature row built by build_feature_row each of lag_1, lag_24
\* and lag_168 is the load of the history row at that offset before the
\* target hour when the history has one, and else the load of the history
\* row nearest to that offset
C27_LagNearest ==
    (/\ lastOp.op = "build_feature_row"
     /\ ~lastOp.result.raised)
      => LET h == TailN(caller_history, lastOp.history_length)
             timestamp == df.last + HOUR
             features == lastOp.result.features
         IN  /\ features.lag_1 = ExpectedLag(h, timestamp, 1)
             /\ features.lag_24 = ExpectedLag(h, timestamp, 24)
             /\ features.lag_168 = ExpectedLag(h, timestamp, 168)

\* the recorded requests of client_ip that are younger than 60 seconds
Younger(store, client_ip, current_time) ==
    SelectSeq(store[client_ip],
              LAMBDA req_time : current_time - req_time < 60)

\* C28: every call of check_rate_limit for an address is rejected with 429
\* and not recorded when 60 recorded requests of the address are younger
\* than 60 seconds, and is else accepted and recorded; requests of 60
\* seconds or more no longer count; the records of the other addresses
\* stay as they are; so no address has more than 60 accepted requests
\* younger than 60 seconds
C28_RateLimit ==
    [][(lastOp' # lastOp /\ lastOp'.op = "check_rate_limit")
         => LET ip == lastOp'.client_ip
                young == Younger(rate_limit_store, ip, clock)
            IN  /\ Len(young) >= 60
                     => /\ lastOp'.status = 429
                        /\ rate_limit_store'[ip] = young
                /\ Len(young) < 60
                     => /\ lastOp'.status = 200
                        /\ rate_limit_store'[ip] = Append(young, clock)
                /\ \A other \in ClientIps \ {ip} :
                     rate_limit_store'[other] = rate_limit_store[other]
                /\ \A any \in ClientIps :
                     Len(Younger(rate_limit_store', any, clock')) <= 60]_vars

\* the 61st request of an address within a minute was rejected while the
\* other address had a request accepted
C28_Witness ==
    /\ lastOp.op = "check_rate_limit"
    /\ lastOp.status = 429
    /\ lastOp.client_ip = "10.0.0.1"
    /\ Len(rate_limit_store["10.0.0.1"]) = 60
    /\ Len(rate_limit_store["10.0.0.2"]) > 0
    /\ clock = 59

\* a request was accepted although 60 requests were on record, because
\* they were 60 seconds old
C28_WitnessExpired ==
    /\ lastOp.op = "check_rate_limit"
    /\ lastOp.status = 200
    /\ lastOp.recorded_before = 60
    /\ clock = 60

\* rolling(window).mean().shift(1) of the dataset at timestamp: the mean
\* of the window loads of the hours timestamp - window .. timestamp - 1
\* (NaN, here -1, without a row for every one of them)
ShiftedRollingMean(h, timestamp, window) ==
    LET S == {i \in 1..Len(h) :
                /\ h[i].timestamp >= timestamp - window * HOUR
                /\ h[i].timestamp <= timestamp - HOUR}
        P == {i \in S : h[i].load > 0}
    IN  IF Cardinality(S) # window THEN 0 - 1
        ELSE BagCardinality([i \in P |-> h[i].load]) \div window

\* C30: for the hour after a contiguous history, roll24 of build_feature_row
\* is the mean of the 24 loads of the 24 hours before the target when the
\* history holds them, and roll168 the mean of the 168 loads of the 168
\* hours before it, as in the dataset columns
C30_RollingWindows ==
    (/\ lastOp.op = "build_feature_row"
     /\ ~lastOp.result.raised)
      => LET h == TailN(caller_history, lastOp.history_length)
             timestamp == df.last + HOUR
             features == lastOp.result.features
         IN  /\ lastOp.history_length >= 24
                  => features.roll24 = ShiftedRollingMean(h, timestamp, 24)
             /\ lastOp.history_length >= 168
                  => features.roll168 = ShiftedRollingMean(h, timestamp, 168)

====
